---- MODULE Spec2Model ----
(***************************************************************************)
(* tonsuu-core: the box-overlay estimation pipeline (src/src/pipeline.rs), *)
(* the height resolver and tonnage calculator (src/src/calculation.rs),    *)
(* the spec repository accessors (src/src/spec.rs) and the reply parser    *)
(* (src/src/parse.rs).                                                     *)
(*                                                                         *)
(* Numbers.  The code computes in f64.  Here every number is a decimal     *)
(* fixed-point value held as an integer count of millionths (0.48 is       *)
(* 480000).  Addition and subtraction are exact; a multiplication or a     *)
(* division is rounded to the nearest millionth, the way each f64          *)
(* operation is rounded to the nearest representable value.  The rounding  *)
(* helpers round2/round3/round4 round half away from zero, as f64::round.  *)
(*                                                                         *)
(* Option<T> is a record: NoneV, or Some(v).                               *)
(***************************************************************************)
EXTENDS Integers, Sequences, FiniteSets, TLC

\* ------------------------------------------------------------------------
\* Bounds of the model
\* ------------------------------------------------------------------------

\* Largest config.ensemble_count explored.
MaxEnsemble == 3

\* ------------------------------------------------------------------------
\* Fixed-point arithmetic (the f64 operators the code uses)
\* ------------------------------------------------------------------------

\* One, in millionths.
Unit == 1000 * 1000

Abs(a) == IF a < 0 THEN 0 - a ELSE a

Sign(a) == IF a < 0 THEN 0 - 1 ELSE 1

\* a * b for non-negative a, b, rounded to the nearest millionth (the
\* product is formed from 3-digit halves, so that no intermediate value
\* leaves the 32-bit range).
MulAbs(a, b) ==
    LET ah == a \div 1000
        al == a % 1000
        bh == b \div 1000
        bl == b % 1000
        m  == ah * bl + al * bh
        r  == al * bl + (Unit \div 2)
    IN  ah * bh + ((m + (r \div 1000)) \div 1000)

\* f64 `a * b`.
Mul(a, b) == Sign(a) * Sign(b) * MulAbs(Abs(a), Abs(b))

\* a / b for a >= 0, b > 0, rounded to the nearest millionth (long division,
\* two decimal digits at a time).
DivAbs(a, b) ==
    LET q0 == a \div b
        r0 == a % b
        q1 == (r0 * 100) \div b
        r1 == (r0 * 100) % b
        q2 == (r1 * 100) \div b
        r2 == (r1 * 100) % b
        q3 == (r2 * 100) \div b
        r3 == (r2 * 100) % b
    IN  ((q0 * 100 + q1) * 100 + q2) * 100 + q3 + (IF 2 * r3 >= b THEN 1 ELSE 0)

\* f64 `a / b`, b # 0.
Div(a, b) == Sign(a) * Sign(b) * DivAbs(Abs(a), Abs(b))

\* f64::clamp(v, lo, hi).
Clamp(v, lo, hi) == IF v < lo THEN lo ELSE IF v > hi THEN hi ELSE v

\* Round v to a multiple of `step` millionths, half away from zero:
\* (v * k).round() / k with k = Unit / step.
RoundTo(v, step) == Sign(v) * (((Abs(v) + (step \div 2)) \div step) * step)

round2(v) == RoundTo(v, 10000)

round3(v) == RoundTo(v, 1000)

round4(v) == RoundTo(v, 100)

\* `n as f64` for a length n.
AsF64(n) == n * Unit

\* ------------------------------------------------------------------------
\* Option
\* ------------------------------------------------------------------------

NoneV == [is_some |-> FALSE]

Some(v) == [is_some |-> TRUE, v |-> v]

\* ------------------------------------------------------------------------
\* Spec repository (src/src/spec.rs; the values come from prompt-spec.json,
\* as the crate's tests state them)
\* ------------------------------------------------------------------------

PLATE_HEIGHT_M == 220000

PLATE_MIN_NORM == 30000

BOTTOM_FILL == 900000

COMPRESSION_REF_VOLUME == 2000000

COMPRESSION_FACTOR == 150000

EFFECTIVE_PACKING_MIN == 700000

EFFECTIVE_PACKING_MAX == 950000

\* SPEC.ranges: [min, max] of the four parameters the pipeline clamps.
fill_ratio_l_min == 0

fill_ratio_l_max == 900000

fill_ratio_w_min == 0

fill_ratio_w_max == 900000

taper_ratio_min == 500000

taper_ratio_max == 1000000

packing_density_min == 500000

packing_density_max == 900000

Ranges ==
    [ fill_ratio_l    |-> [min |-> fill_ratio_l_min, max |-> fill_ratio_l_max],
      fill_ratio_w    |-> [min |-> fill_ratio_w_min, max |-> fill_ratio_w_max],
      taper_ratio     |-> [min |-> taper_ratio_min, max |-> taper_ratio_max],
      packing_density |-> [min |-> packing_density_min, max |-> packing_density_max] ]

\* SPEC.materials: name -> density.
DensityAsGara == 2500000

DensityDosha == 1800000

\* The material names, transliterated: AsGara is the default material
\* ("As-gara", asphalt debris), Dosha is soil.
AsGara == "AsGara"

Dosha == "Dosha"

Materials == [m \in {AsGara, Dosha} |-> IF m = AsGara THEN DensityAsGara ELSE DensityDosha]

\* SPEC.truck_specs: class -> bed dimensions (the 4t class is the one whose
\* figures the sources state).
Bed4tLength == 3400000

Bed4tWidth == 2060000

Bed4tHeight == 320000

TruckSpecs ==
    [c \in {"4t"} |-> [bed_length |-> Bed4tLength, bed_width |-> Bed4tWidth, bed_height |-> Bed4tHeight]]

\* unwrap_or(0.32) of the pipeline's bed-height lookup.
DefaultBedHeight == 320000

\* unwrap_or(2.5) and unwrap_or(6.8) of the accessors' last-resort defaults.
FallbackDensity == 2500000

FallbackBedArea == 6800000

get_material_density(name) ==
    IF name \in DOMAIN Materials THEN Materials[name]
    ELSE IF AsGara \in DOMAIN Materials THEN Materials[AsGara]
    ELSE FallbackDensity

get_truck_spec(truck_class) ==
    IF truck_class \in DOMAIN TruckSpecs THEN Some(TruckSpecs[truck_class]) ELSE NoneV

default_bed_area ==
    IF "4t" \in DOMAIN TruckSpecs
    THEN Mul(TruckSpecs["4t"].bed_length, TruckSpecs["4t"].bed_width)
    ELSE FallbackBedArea

\* ------------------------------------------------------------------------
\* Tonnage calculation and geometry height (src/src/calculation.rs)
\* ------------------------------------------------------------------------

\* The 3.4 of the unknown-class branch ("assume 4t proportions").
AssumedBedLength == 3400000

\* Bed dimensions that take the last-resort area for a class not on record.
BedDimsFallbackArea(truck_class) ==
    LET s == IF truck_class.is_some THEN get_truck_spec(truck_class.v) ELSE NoneV
    IN  IF s.is_some
        THEN <<s.v.bed_length, s.v.bed_width>>
        ELSE <<AssumedBedLength, Div(FallbackBedArea, AssumedBedLength)>>

\* (bed_l, bed_w) of calculate_tonnage; truck_class is an Option.
BedDims(truck_class) ==
    LET s == IF truck_class.is_some THEN get_truck_spec(truck_class.v) ELSE NoneV
    IN  IF s.is_some
        THEN <<s.v.bed_length, s.v.bed_width>>
        ELSE <<AssumedBedLength, Div(default_bed_area, AssumedBedLength)>>

\* A calculator that never takes the load lower than a centimetre.
calculate_tonnage_min_height(params, truck_class) ==
    LET bed         == BedDims(truck_class)
        effective_l == Mul(params.fill_ratio_l, params.taper_ratio)
        effective_w == Div(BOTTOM_FILL + params.fill_ratio_w, 2 * Unit)
        volume      == Mul(Mul(Mul(Mul(bed[1], bed[2]), (IF params.height < Unit \div 100 THEN Unit \div 100 ELSE params.height)), effective_l), effective_w)
        compression_factor == Unit + Mul(COMPRESSION_FACTOR, volume - COMPRESSION_REF_VOLUME)
        effective_packing  == Clamp(Mul(params.packing_density, compression_factor),
                                    EFFECTIVE_PACKING_MIN, EFFECTIVE_PACKING_MAX)
        density     == get_material_density(params.material_type)
        tonnage     == Mul(Mul(volume, density), effective_packing)
    IN  [ volume            |-> round3(volume),
          tonnage           |-> round2(tonnage),
          effective_packing |-> round3(effective_packing),
          density           |-> density ]

\* A calculator without the clamp of the effective packing.
calculate_tonnage_no_clamp(params, truck_class) ==
    LET bed         == BedDims(truck_class)
        effective_l == Mul(params.fill_ratio_l, params.taper_ratio)
        effective_w == Div(BOTTOM_FILL + params.fill_ratio_w, 2 * Unit)
        volume      == Mul(Mul(Mul(Mul(bed[1], bed[2]), params.height), effective_l), effective_w)
        compression_factor == Unit + Mul(COMPRESSION_FACTOR, volume - COMPRESSION_REF_VOLUME)
        effective_packing  == Mul(params.packing_density, compression_factor)
        density     == get_material_density(params.material_type)
        tonnage     == Mul(Mul(volume, density), effective_packing)
    IN  [ volume            |-> round3(volume),
          tonnage           |-> round2(tonnage),
          effective_packing |-> round3(effective_packing),
          density           |-> density ]

\* A calculator that weighs every material as the default one.
calculate_tonnage_fixed_density(params, truck_class) ==
    LET bed         == BedDims(truck_class)
        effective_l == Mul(params.fill_ratio_l, params.taper_ratio)
        effective_w == Div(BOTTOM_FILL + params.fill_ratio_w, 2 * Unit)
        volume      == Mul(Mul(Mul(Mul(bed[1], bed[2]), params.height), effective_l), effective_w)
        compression_factor == Unit + Mul(COMPRESSION_FACTOR, volume - COMPRESSION_REF_VOLUME)
        effective_packing  == Clamp(Mul(params.packing_density, compression_factor),
                                    EFFECTIVE_PACKING_MIN, EFFECTIVE_PACKING_MAX)
        density     == get_material_density(params.material_type)
        tonnage     == Mul(Mul(volume, get_material_density(AsGara)), effective_packing)
    IN  [ volume            |-> round3(volume),
          tonnage           |-> round2(tonnage),
          effective_packing |-> round3(effective_packing),
          density           |-> density ]

calculate_tonnage(params, truck_class) ==
    LET bed         == BedDims(truck_class)
        effective_l == Mul(params.fill_ratio_l, params.taper_ratio)
        effective_w == Div(BOTTOM_FILL + params.fill_ratio_w, 2 * Unit)
        volume      == Mul(Mul(Mul(Mul(bed[1], bed[2]), params.height), effective_l), effective_w)
        compression_factor == Unit + Mul(COMPRESSION_FACTOR, volume - COMPRESSION_REF_VOLUME)
        effective_packing  == Clamp(Mul(params.packing_density, compression_factor),
                                    EFFECTIVE_PACKING_MIN, EFFECTIVE_PACKING_MAX)
        density     == get_material_density(params.material_type)
        tonnage     == Mul(Mul(volume, density), effective_packing)
    IN  [ volume            |-> round3(volume),
          tonnage           |-> round2(tonnage),
          effective_packing |-> round3(effective_packing),
          density           |-> density ]

\* The height ceiling of height_from_geometry's final clamp.
HeightCeiling == 800000

\* A resolver that prefers the plate whenever a usable plate box is supplied.
height_from_geometry_plate_first(tg_top, tg_bot, cargo_top, plate_box, bed_height) ==
    LET has_tailgate      == tg_bot > 0 /\ tg_bot > tg_top
        plate_height_norm == IF plate_box.is_some THEN plate_box.v[4] - plate_box.v[2] ELSE 0
        has_plate         == plate_height_norm > PLATE_MIN_NORM
    IN  IF ~has_plate /\ ~has_tailgate
        THEN <<0, "none">>
        ELSE IF ~has_plate
        THEN LET tg_height_norm == tg_bot - tg_top
                 m_per_norm     == Div(bed_height, tg_height_norm)
                 h              == Mul(tg_bot - cargo_top, m_per_norm)
             IN  <<Clamp(h, 0, HeightCeiling), "tailgate">>
        ELSE LET m_per_norm == Div(PLATE_HEIGHT_M, plate_height_norm)
                 h          == bed_height + Mul(tg_top - cargo_top, m_per_norm)
             IN  <<Clamp(h, 0, HeightCeiling), "plate">>

\* A resolver that accepts a plate box whose height is exactly plate_min_norm.
height_from_geometry_plate_at_threshold(tg_top, tg_bot, cargo_top, plate_box, bed_height) ==
    LET has_tailgate      == tg_bot > 0 /\ tg_bot > tg_top
        plate_height_norm == IF plate_box.is_some THEN plate_box.v[4] - plate_box.v[2] ELSE 0
        has_plate         == plate_height_norm >= PLATE_MIN_NORM
    IN  IF ~has_plate /\ ~has_tailgate
        THEN <<0, "none">>
        ELSE IF has_tailgate
        THEN LET tg_height_norm == tg_bot - tg_top
                 m_per_norm     == Div(bed_height, tg_height_norm)
                 h              == Mul(tg_bot - cargo_top, m_per_norm)
             IN  <<Clamp(h, 0, HeightCeiling), "tailgate">>
        ELSE LET m_per_norm == Div(PLATE_HEIGHT_M, plate_height_norm)
                 h          == bed_height + Mul(tg_top - cargo_top, m_per_norm)
             IN  <<Clamp(h, 0, HeightCeiling), "plate">>

\* A resolver that gives up as soon as the tailgate is unusable.
height_from_geometry_tailgate_only(tg_top, tg_bot, cargo_top, plate_box, bed_height) ==
    LET has_tailgate == tg_bot > 0 /\ tg_bot > tg_top
    IN  IF ~has_tailgate
        THEN <<0, "none">>
        ELSE LET tg_height_norm == tg_bot - tg_top
                 m_per_norm     == Div(bed_height, tg_height_norm)
                 h              == Mul(tg_bot - cargo_top, m_per_norm)
             IN  <<Clamp(h, 0, HeightCeiling), "tailgate">>

\* A resolver without the final clamp.
height_from_geometry_unclamped(tg_top, tg_bot, cargo_top, plate_box, bed_height) ==
    LET has_tailgate      == tg_bot > 0 /\ tg_bot > tg_top
        plate_height_norm == IF plate_box.is_some THEN plate_box.v[4] - plate_box.v[2] ELSE 0
        has_plate         == plate_height_norm > PLATE_MIN_NORM
    IN  IF ~has_plate /\ ~has_tailgate
        THEN <<0, "none">>
        ELSE IF has_tailgate
        THEN LET tg_height_norm == tg_bot - tg_top
                 m_per_norm     == Div(bed_height, tg_height_norm)
                 h              == Mul(tg_bot - cargo_top, m_per_norm)
             IN  <<h, "tailgate">>
        ELSE LET m_per_norm == Div(PLATE_HEIGHT_M, plate_height_norm)
                 h          == bed_height + Mul(tg_top - cargo_top, m_per_norm)
             IN  <<h, "plate">>

\* Returns <<height_m, scale_method>>; plate_box is an Option of <<x1,y1,x2,y2>>.
height_from_geometry(tg_top, tg_bot, cargo_top, plate_box, bed_height) ==
    LET has_tailgate      == tg_bot > 0 /\ tg_bot > tg_top
        plate_height_norm == IF plate_box.is_some THEN plate_box.v[4] - plate_box.v[2] ELSE 0
        has_plate         == plate_height_norm > PLATE_MIN_NORM
    IN  IF ~has_plate /\ ~has_tailgate
        THEN <<0, "none">>
        ELSE IF has_tailgate
        THEN LET tg_height_norm == tg_bot - tg_top
                 m_per_norm     == Div(bed_height, tg_height_norm)
                 h              == Mul(tg_bot - cargo_top, m_per_norm)
             IN  <<Clamp(h, 0, HeightCeiling), "tailgate">>
        ELSE LET m_per_norm == Div(PLATE_HEIGHT_M, plate_height_norm)
                 h          == bed_height + Mul(tg_top - cargo_top, m_per_norm)
             IN  <<Clamp(h, 0, HeightCeiling), "plate">>

\* ------------------------------------------------------------------------
\* Result<T, E>
\* ------------------------------------------------------------------------

Ok(v) == [ok |-> TRUE, v |-> v]

Err(e) == [ok |-> FALSE, err |-> e]

\* ------------------------------------------------------------------------
\* AI replies and their parse (src/src/parse.rs).  The replies a backend may
\* give are drawn from these texts; parse_geometry and parse_fill are
\* tabulated on them: what serde_json yields for each text, with the
\* #[serde(default)] values for the fields a text leaves out.
\* ------------------------------------------------------------------------

G_BAD == "not json at all"

G_EMPTY == "{}"

G_TAILGATE == "{\"tailgateTopY\":0.3,\"tailgateBottomY\":0.5,\"cargoTopY\":0.2}"

G_TAILGATE_LOW == "{\"tailgateTopY\":0.3,\"tailgateBottomY\":0.5,\"cargoTopY\":0.4}"

G_TOP_ZERO == "{\"tailgateTopY\":0.0,\"tailgateBottomY\":0.5,\"cargoTopY\":0.2}"

G_PLATE == "{\"plateBox\":[0.4,0.7,0.6,0.84],\"tailgateTopY\":0.3,\"tailgateBottomY\":0.0,\"cargoTopY\":0.15}"

G_NO_REFERENCE == "{\"tailgateTopY\":0.3,\"tailgateBottomY\":0.0,\"cargoTopY\":0.2}"

GeometryResponse(plate_box, top, bot, cargo) ==
    [plate_box |-> plate_box, tailgate_top_y |-> top, tailgate_bottom_y |-> bot, cargo_top_y |-> cargo]

parse_geometry(text) ==
    CASE text = G_TAILGATE     -> Ok(GeometryResponse(NoneV, 300000, 500000, 200000))
      [] text = G_TAILGATE_LOW -> Ok(GeometryResponse(NoneV, 300000, 500000, 400000))
      [] text = G_TOP_ZERO     -> Ok(GeometryResponse(NoneV, 0, 500000, 200000))
      [] text = G_PLATE        -> Ok(GeometryResponse(Some(<<400000, 700000, 600000, 840000>>),
                                                      300000, 0, 150000))
      [] text = G_NO_REFERENCE -> Ok(GeometryResponse(NoneV, 300000, 0, 200000))
      [] text = G_EMPTY        -> Ok(GeometryResponse(NoneV, 0, 0, 0))
      [] OTHER                 -> Err("ParseError")

F_BAD == "bad fill"

F_PLAIN == "{\"fillRatioL\":0.8,\"fillRatioW\":0.85,\"taperRatio\":0.9,\"packingDensity\":0.8}"

F_PACKED == "{\"fillRatioL\":0.8,\"fillRatioW\":0.85,\"taperRatio\":0.9,\"packingDensity\":0.8,\"materialType\":\"AsGara\",\"reasoning\":\"Well packed\"}"

F_OUT_OF_RANGE == "{\"fillRatioL\":0.1,\"fillRatioW\":0.99,\"taperRatio\":0.2,\"packingDensity\":0.99,\"materialType\":\"Dosha\"}"

F_DEFAULTS == "{\"fillRatioL\":0.75,\"materialType\":\"?\",\"reasoning\":\"\"}"

F_LOOSE == "{\"fillRatioL\":1.5,\"fillRatioW\":0.85,\"taperRatio\":0.9,\"packingDensity\":0.3,\"materialType\":\"\",\"reasoning\":\"Loose\"}"

F_EMPTY == "{}"

\* default_fill_l, default_fill_w, default_taper, default_packing.
default_fill_l == 800000

default_fill_w == 700000

default_taper == 850000

default_packing == 700000

\* The fill reply as the pipeline reads it: the four ratios, and the optional
\* material_type ("materialType") and reasoning the fill loop looks at.
FillResponse(l, w, taper, packing, material_type, reasoning) ==
    [fill_ratio_l |-> l, fill_ratio_w |-> w, taper_ratio |-> taper, packing_density |-> packing,
     material_type |-> material_type, reasoning |-> reasoning]

\* A reading of fill replies with no #[serde(default)]: a reply that leaves a
\* ratio out does not parse.
parse_fill_all_required(text) ==
    CASE text = F_PLAIN        -> Ok(FillResponse(800000, 850000, 900000, 800000, NoneV, NoneV))
      [] text = F_PACKED       -> Ok(FillResponse(800000, 850000, 900000, 800000,
                                                  Some(AsGara), Some("Well packed")))
      [] text = F_OUT_OF_RANGE -> Ok(FillResponse(100000, 990000, 200000, 990000, Some(Dosha), NoneV))
      [] text = F_LOOSE        -> Ok(FillResponse(1500000, 850000, 900000, 300000,
                                                  Some(""), Some("Loose")))
      [] OTHER                 -> Err("ParseError")

parse_fill(text) ==
    CASE text = F_PLAIN        -> Ok(FillResponse(800000, 850000, 900000, 800000, NoneV, NoneV))
      [] text = F_PACKED       -> Ok(FillResponse(800000, 850000, 900000, 800000,
                                                  Some(AsGara), Some("Well packed")))
      [] text = F_OUT_OF_RANGE -> Ok(FillResponse(100000, 990000, 200000, 990000, Some(Dosha), NoneV))
      [] text = F_DEFAULTS     -> Ok(FillResponse(750000, default_fill_w, default_taper,
                                                  default_packing, Some("?"), Some("")))
      [] text = F_LOOSE        -> Ok(FillResponse(1500000, 850000, 900000, 300000,
                                                  Some(""), Some("Loose")))
      [] text = F_EMPTY        -> Ok(FillResponse(default_fill_l, default_fill_w, default_taper,
                                                  default_packing, NoneV, NoneV))
      [] OTHER                 -> Err("ParseError")

\* ------------------------------------------------------------------------
\* AiBackend: what send_prompt may return for each prompt.  A backend is one
\* of two families of implementations: one varied in its geometry replies,
\* one varied in its fill replies.
\* ------------------------------------------------------------------------

GEOMETRY_PROMPT == "geometry_prompt"

FILL_PROMPT == "fill_prompt"

Backends == {"geometry_varied", "fill_varied"}

GeometryTexts == {G_BAD, G_TAILGATE, G_TAILGATE_LOW, G_TOP_ZERO, G_PLATE, G_NO_REFERENCE}

FillTexts == {F_BAD, F_PLAIN, F_PACKED, F_OUT_OF_RANGE, F_DEFAULTS, F_LOOSE}

send_prompt(b, prompt) ==
    IF b = "sparse"
    THEN IF prompt = GEOMETRY_PROMPT
         THEN {Ok(G_EMPTY), Ok(G_TAILGATE)}
         ELSE {Ok(F_EMPTY), Ok(F_DEFAULTS)}
    ELSE IF b = "order_geometry"
    THEN IF prompt = GEOMETRY_PROMPT
         THEN {Err("AiError"), Ok(G_TAILGATE), Ok(G_TAILGATE_LOW), Ok(G_PLATE)}
         ELSE {Ok(F_PACKED)}
    ELSE IF b = "order_fill"
    THEN IF prompt = GEOMETRY_PROMPT
         THEN {Ok(G_TAILGATE)}
         ELSE {Ok(F_BAD), Ok(F_PACKED), Ok(F_OUT_OF_RANGE), Ok(F_LOOSE)}
    ELSE IF prompt = GEOMETRY_PROMPT
    THEN IF b = "geometry_varied"
         THEN {Err("AiError")} \cup {Ok(t) : t \in GeometryTexts}
         ELSE {Ok(G_BAD), Ok(G_TAILGATE)}
    ELSE IF b = "fill_varied"
         THEN {Err("AiError")} \cup {Ok(t) : t \in FillTexts}
         ELSE {Ok(F_BAD), Ok(F_PACKED)}

\* ------------------------------------------------------------------------
\* Pipeline helpers (src/src/pipeline.rs)
\* ------------------------------------------------------------------------

RECURSIVE Insert(_, _)
\* v put into the ascending sequence s, after the elements equal to it.
Insert(s, v) ==
    IF s = <<>> THEN <<v>>
    ELSE IF v < Head(s) THEN <<v>> \o s
    ELSE <<Head(s)>> \o Insert(Tail(s), v)

RECURSIVE Sorted(_)
\* sort_by(partial_cmp): arr in ascending order.
Sorted(arr) == IF arr = <<>> THEN <<>> ELSE Insert(Sorted(Tail(arr)), Head(arr))

\* The lower middle element: what a median indexed (len - 1) / 2 would return.
median_lower(arr) == Sorted(arr)[((Len(arr) - 1) \div 2) + 1]

\* The middle element of the sample as it stands, without sorting it.
median_unsorted(arr) == arr[(Len(arr) \div 2) + 1]

\* sorted[sorted.len() / 2] (sequences are 1-based here).
median(arr) == Sorted(arr)[(Len(arr) \div 2) + 1]

RECURSIVE Sum(_)
Sum(arr) == IF arr = <<>> THEN 0 ELSE Head(arr) + Sum(Tail(arr))

\* arr.iter().sum::<f64>() / arr.len() as f64, for a non-empty arr.
average(arr) == Div(Sum(arr), AsF64(Len(arr)))

\* The mean of the values clamped one by one: the other order of clamp and mean.
MeanOfClamped(arr, range) ==
    average([k \in 1..Len(arr) |-> Clamp(arr[k], range.min, range.max)])

\* average(&list).clamp(range.min, range.max)
ClampedMean(arr, range) == Clamp(average(arr), range.min, range.max)

\* The number of occurrences of v in values.
Count(values, v) == Cardinality({k \in 1..Len(values) : values[k] = v})

\* A mode that returns the first vote instead of the most frequent one.
mode_string_first(values) ==
    IF values = <<>> THEN {NoneV} ELSE {Some(values[1])}

\* mode_string: the set of values the call may return.  The tally is a
\* HashMap, whose iteration order is not fixed (std's RandomState seeds each
\* map differently), and max_by_key returns the last maximum met: with
\* several values at the highest count, any of them may be returned.
mode_string(values) ==
    IF values = <<>> THEN {NoneV}
    ELSE {Some(values[k]) : k \in {j \in 1..Len(values) :
                \A o \in 1..Len(values) : Count(values, values[j]) >= Count(values, values[o])}}

\* The bed height the geometry round scales with.
bed_height(truck_class) ==
    IF truck_class \in DOMAIN TruckSpecs THEN TruckSpecs[truck_class].bed_height ELSE DefaultBedHeight

GeometryRunLog(raw_response, parsed, scale_method, h) ==
    [raw_response |-> raw_response, parsed |-> parsed, scale_method |-> scale_method, height_m |-> h]

\* One geometry trial without the tailgateTopY <= 0 guard.
GeometryRunNoTopGuard(sent, bh) ==
    IF ~sent.ok
    THEN [run |-> GeometryRunLog("", NoneV, "error", 0), h |-> NoneV]
    ELSE LET p == parse_geometry(sent.v) IN
         IF ~p.ok
         THEN [run |-> GeometryRunLog(sent.v, NoneV, "parse_error", 0), h |-> NoneV]
         ELSE LET geo == p.v
                  hm  == height_from_geometry(geo.tailgate_top_y, geo.tailgate_bottom_y,
                                              geo.cargo_top_y, geo.plate_box, bh)
              IN  IF hm[2] = "none"
                  THEN [run |-> GeometryRunLog(sent.v, Some(geo), "none", 0), h |-> NoneV]
                  ELSE [run |-> GeometryRunLog(sent.v, Some(geo), hm[2], hm[1]), h |-> Some(hm[1])]

\* One geometry trial that forgets the `continue` of the "none" branch: the
\* resolver's height is pushed to the sample as well.
GeometryRunNoContinue(sent, bh) ==
    IF ~sent.ok
    THEN [run |-> GeometryRunLog("", NoneV, "error", 0), h |-> NoneV]
    ELSE LET p == parse_geometry(sent.v) IN
         IF ~p.ok
         THEN [run |-> GeometryRunLog(sent.v, NoneV, "parse_error", 0), h |-> NoneV]
         ELSE LET geo == p.v
                  hm  == height_from_geometry(geo.tailgate_top_y, geo.tailgate_bottom_y,
                                              geo.cargo_top_y, geo.plate_box, bh)
              IN  IF geo.tailgate_top_y <= 0
                  THEN [run |-> GeometryRunLog(sent.v, Some(geo), "none", 0), h |-> NoneV]
                  ELSE IF hm[2] = "none"
                  THEN [run |-> GeometryRunLog(sent.v, Some(geo), "none", 0), h |-> Some(hm[1])]
                  ELSE [run |-> GeometryRunLog(sent.v, Some(geo), hm[2], hm[1]), h |-> Some(hm[1])]

\* One geometry trial whose guard lets tailgateTopY = 0 through.
GeometryRunTopNegativeOnly(sent, bh) ==
    IF ~sent.ok
    THEN [run |-> GeometryRunLog("", NoneV, "error", 0), h |-> NoneV]
    ELSE LET p == parse_geometry(sent.v) IN
         IF ~p.ok
         THEN [run |-> GeometryRunLog(sent.v, NoneV, "parse_error", 0), h |-> NoneV]
         ELSE LET geo == p.v
                  hm  == height_from_geometry(geo.tailgate_top_y, geo.tailgate_bottom_y,
                                              geo.cargo_top_y, geo.plate_box, bh)
              IN  IF geo.tailgate_top_y < 0
                  THEN [run |-> GeometryRunLog(sent.v, Some(geo), "none", 0), h |-> NoneV]
                  ELSE IF hm[2] = "none"
                  THEN [run |-> GeometryRunLog(sent.v, Some(geo), "none", 0), h |-> NoneV]
                  ELSE [run |-> GeometryRunLog(sent.v, Some(geo), hm[2], hm[1]), h |-> Some(hm[1])]

\* A loop body that logs a transport failure the way it logs a parse failure.
GeometryRunErrorAsParseError(sent, bh) ==
    IF ~sent.ok
    THEN [run |-> GeometryRunLog("", NoneV, "parse_error", 0), h |-> NoneV]
    ELSE LET p == parse_geometry(sent.v) IN
         IF ~p.ok
         THEN [run |-> GeometryRunLog(sent.v, NoneV, "parse_error", 0), h |-> NoneV]
         ELSE LET geo == p.v
                  hm  == height_from_geometry(geo.tailgate_top_y, geo.tailgate_bottom_y,
                                              geo.cargo_top_y, geo.plate_box, bh)
              IN  IF geo.tailgate_top_y <= 0
                  THEN [run |-> GeometryRunLog(sent.v, Some(geo), "none", 0), h |-> NoneV]
                  ELSE IF hm[2] = "none"
                  THEN [run |-> GeometryRunLog(sent.v, Some(geo), "none", 0), h |-> NoneV]
                  ELSE [run |-> GeometryRunLog(sent.v, Some(geo), hm[2], hm[1]), h |-> Some(hm[1])]

\* The body of the geometry loop for one send_prompt result: the log entry
\* pushed to geometry_runs and, if any, the height pushed to height_list.
GeometryRun(sent, bh) ==
    IF ~sent.ok
    THEN [run |-> GeometryRunLog("", NoneV, "error", 0), h |-> NoneV]
    ELSE LET p == parse_geometry(sent.v) IN
         IF ~p.ok
         THEN [run |-> GeometryRunLog(sent.v, NoneV, "parse_error", 0), h |-> NoneV]
         ELSE LET geo == p.v
                  hm  == height_from_geometry(geo.tailgate_top_y, geo.tailgate_bottom_y,
                                              geo.cargo_top_y, geo.plate_box, bh)
              IN  IF geo.tailgate_top_y <= 0
                  THEN [run |-> GeometryRunLog(sent.v, Some(geo), "none", 0), h |-> NoneV]
                  ELSE IF hm[2] = "none"
                  THEN [run |-> GeometryRunLog(sent.v, Some(geo), "none", 0), h |-> NoneV]
                  ELSE [run |-> GeometryRunLog(sent.v, Some(geo), hm[2], hm[1]), h |-> Some(hm[1])]

FillRunLog(raw_response, parsed) == [raw_response |-> raw_response, parsed |-> parsed]

\* The body of the fill loop for one send_prompt result: the log entry pushed
\* to fill_runs and, if the reply parsed, the FillResponse.
FillRun(sent) ==
    IF ~sent.ok
    THEN [run |-> FillRunLog("", NoneV), fill |-> NoneV]
    ELSE LET p == parse_fill(sent.v) IN
         IF ~p.ok
         THEN [run |-> FillRunLog(sent.v, NoneV), fill |-> NoneV]
         ELSE [run |-> FillRunLog(sent.v, Some(p.v)), fill |-> Some(p.v)]

\* The votes a parsed fill adds to detected_materials.
MaterialVote(fill) ==
    IF fill.material_type.is_some /\ fill.material_type.v # "" /\ fill.material_type.v # "?"
    THEN <<fill.material_type.v>>
    ELSE <<>>

\* A holder that keeps the first reasoning it was given.
FirstReasoning(last, fill) ==
    IF fill.reasoning.is_some /\ last = "" THEN fill.reasoning.v ELSE last

\* last_reasoning after a parsed fill.
NextReasoning(last, fill) ==
    IF fill.reasoning.is_some THEN fill.reasoning.v ELSE last

CoreParams(height, l, w, taper, packing, material_type) ==
    [height |-> height, fill_ratio_l |-> l, fill_ratio_w |-> w, taper_ratio |-> taper,
     packing_density |-> packing, material_type |-> material_type]

\* The Ok value of analyze_box_overlay.
BoxOverlayResult(p, calc, reasoning, g_runs, f_runs) ==
    [ height_m          |-> round3(p.height),
      fill_ratio_l      |-> round3(p.fill_ratio_l),
      fill_ratio_w      |-> round3(p.fill_ratio_w),
      taper_ratio       |-> round3(p.taper_ratio),
      packing_density   |-> round3(calc.effective_packing),
      effective_packing |-> round3(calc.effective_packing),
      volume            |-> round4(calc.volume),
      tonnage           |-> round2(calc.tonnage),
      density           |-> calc.density,
      material_type     |-> p.material_type,
      reasoning         |-> reasoning,
      geometry_runs     |-> g_runs,
      fill_runs         |-> f_runs ]

\* ------------------------------------------------------------------------
\* State: one caller of analyze_box_overlay and its backend
\* ------------------------------------------------------------------------

VARIABLES
    config,             \* BoxOverlayConfig of the call
    backend,            \* the AiBackend implementation in use
    tape,               \* the sends of the current call, in order: prompt and reply
    script,             \* the first call's tape, which a second call replays
    call,               \* 1 for the first call, 2 for the repeated call
    first,              \* what the first call returned, once a second call started
    pc,                 \* "geometry", "fill" or "done": where the call stands
    i,                  \* the loop counter of the round in progress
    height_list,
    geometry_runs,
    height_m,
    fill_l_list,
    fill_w_list,
    taper_list,
    packing_list,
    last_reasoning,
    detected_materials,
    fill_runs,
    params,             \* the CoreParams handed to calculate_tonnage, once built
    returned,           \* NoneV while the call runs, then Some(Ok(result)) or Some(Err(e))
    args,               \* the arguments of a direct call of a library function, if any
    ret,                \* NoneV until that call returns, then Some(its return value)
    invocations,        \* the locals of each of several calls running at once, if any
    spec_cell           \* the LazyLock behind SPEC as those calls see it: NoneV until first read

vars == <<config, backend, tape, script, call, first, pc, i, height_list, geometry_runs,
          height_m, fill_l_list, fill_w_list, taper_list, packing_list, last_reasoning,
          detected_materials, fill_runs, params, returned, args, ret, invocations, spec_cell>>

\* The configs explored: a known truck class with the default material, an
\* unknown class with another material, each with every ensemble_count.
Configs ==
    { [truck_class |-> c[1], material_type |-> c[2], ensemble_count |-> n] :
        c \in {<<"4t", AsGara>>, <<"unknown", Dosha>>}, n \in 0..MaxEnsemble }

\* The locals of analyze_box_overlay as the call starts.
FreshLocals ==
    /\ height_list = <<>>
    /\ geometry_runs = <<>>
    /\ height_m = 0
    /\ fill_l_list = <<>>
    /\ fill_w_list = <<>>
    /\ taper_list = <<>>
    /\ packing_list = <<>>
    /\ last_reasoning = ""
    /\ detected_materials = <<>>
    /\ fill_runs = <<>>
    /\ params = NoneV

Init ==
    /\ config \in Configs
    /\ backend \in Backends
    /\ tape = <<>>
    /\ script = <<>>
    /\ call = 1
    /\ first = NoneV
    /\ pc = "geometry"
    /\ i = 0
    /\ FreshLocals
    /\ returned = NoneV
    /\ args = NoneV
    /\ invocations = NoneV
    /\ spec_cell = NoneV
    /\ ret = NoneV

\* What the backend answers to the next send: anything it may answer on a
\* first call, the same answer as the first time on the repeated call.
Replies(prompt) ==
    IF call = 1 THEN send_prompt(backend, prompt)
    ELSE IF Len(tape) < Len(script) THEN {script[Len(tape) + 1].reply}
    ELSE {}

\* ------------------------------------------------------------------------
\* analyze_box_overlay, one step per loop iteration and per round end
\* ------------------------------------------------------------------------

\* A geometry loop that propagates a transport error with `?`.
GeometryTrialPropagate ==
    /\ pc = "geometry"
    /\ i < config.ensemble_count
    /\ \E sent \in Replies(GEOMETRY_PROMPT) :
         LET r == GeometryRun(sent, bed_height(config.truck_class)) IN
         /\ tape' = Append(tape, [prompt |-> GEOMETRY_PROMPT, reply |-> sent])
         /\ IF sent.ok
            THEN /\ geometry_runs' = Append(geometry_runs, r.run)
                 /\ height_list' = IF r.h.is_some THEN Append(height_list, r.h.v) ELSE height_list
                 /\ i' = i + 1
                 /\ UNCHANGED <<pc, returned>>
            ELSE /\ pc' = "done"
                 /\ returned' = Some(Err("AiError"))
                 /\ UNCHANGED <<geometry_runs, height_list, i>>
    /\ UNCHANGED <<invocations, spec_cell, args, ret, config, backend, script, call, first, height_m, fill_l_list, fill_w_list,
                   taper_list, packing_list, last_reasoning, detected_materials, fill_runs, params>>

\* A geometry loop that sends the prompt a second time when the first send
\* fails.
GeometryTrialRetryOnce ==
    /\ pc = "geometry"
    /\ i < config.ensemble_count
    /\ \E sent \in Replies(GEOMETRY_PROMPT) :
         IF sent.ok
         THEN LET r == GeometryRun(sent, bed_height(config.truck_class)) IN
              /\ tape' = Append(tape, [prompt |-> GEOMETRY_PROMPT, reply |-> sent])
              /\ geometry_runs' = Append(geometry_runs, r.run)
              /\ height_list' = IF r.h.is_some THEN Append(height_list, r.h.v) ELSE height_list
         ELSE \E again \in send_prompt(backend, GEOMETRY_PROMPT) :
              LET r == GeometryRun(again, bed_height(config.truck_class)) IN
              /\ tape' = tape \o <<[prompt |-> GEOMETRY_PROMPT, reply |-> sent],
                                   [prompt |-> GEOMETRY_PROMPT, reply |-> again]>>
              /\ geometry_runs' = Append(geometry_runs, r.run)
              /\ height_list' = IF r.h.is_some THEN Append(height_list, r.h.v) ELSE height_list
    /\ i' = i + 1
    /\ UNCHANGED <<invocations, spec_cell, args, ret, config, backend, script, call, first, pc, height_m, fill_l_list, fill_w_list,
                   taper_list, packing_list, last_reasoning, detected_materials, fill_runs,
                   params, returned>>

\* One iteration of `for _i in 0..config.ensemble_count` of the geometry round.
GeometryTrial ==
    /\ pc = "geometry"
    /\ i < config.ensemble_count
    /\ \E sent \in Replies(GEOMETRY_PROMPT) :
         LET r == GeometryRun(sent, bed_height(config.truck_class)) IN
         /\ tape' = Append(tape, [prompt |-> GEOMETRY_PROMPT, reply |-> sent])
         /\ geometry_runs' = Append(geometry_runs, r.run)
         /\ height_list' = IF r.h.is_some THEN Append(height_list, r.h.v) ELSE height_list
    /\ i' = i + 1
    /\ UNCHANGED <<invocations, spec_cell, args, ret, config, backend, script, call, first, pc, height_m, fill_l_list, fill_w_list,
                   taper_list, packing_list, last_reasoning, detected_materials, fill_runs,
                   params, returned>>

\* A geometry round end that runs the fill round whatever the sample holds.
GeometryRoundEndNoReturn ==
    /\ pc = "geometry"
    /\ i = config.ensemble_count
    /\ height_m' = IF height_list = <<>> THEN 0 ELSE median(height_list)
    /\ pc' = "fill"
    /\ i' = 0
    /\ UNCHANGED <<invocations, spec_cell, args, ret, config, backend, tape, script, call, first, height_list, geometry_runs,
                   fill_l_list, fill_w_list, taper_list, packing_list, last_reasoning,
                   detected_materials, fill_runs, params, returned>>

\* The end of the geometry loop: the early return on an empty sample, or the
\* median and on to the fill round.
GeometryRoundEnd ==
    /\ pc = "geometry"
    /\ i = config.ensemble_count
    /\ IF height_list = <<>>
       THEN /\ returned' = Some(Err("NoValidGeometry"))
            /\ pc' = "done"
            /\ UNCHANGED <<height_m, i>>
       ELSE /\ height_m' = median(height_list)
            /\ pc' = "fill"
            /\ i' = 0
            /\ UNCHANGED returned
    /\ UNCHANGED <<invocations, spec_cell, args, ret, config, backend, tape, script, call, first, height_list, geometry_runs,
                   fill_l_list, fill_w_list, taper_list, packing_list, last_reasoning,
                   detected_materials, fill_runs, params>>

\* One iteration of `for _i in 0..config.ensemble_count` of the fill round.
FillTrial ==
    /\ pc = "fill"
    /\ i < config.ensemble_count
    /\ \E sent \in Replies(FILL_PROMPT) :
         LET r == FillRun(sent) IN
         /\ tape' = Append(tape, [prompt |-> FILL_PROMPT, reply |-> sent])
         /\ fill_runs' = Append(fill_runs, r.run)
         /\ IF r.fill.is_some
            THEN /\ fill_l_list' = Append(fill_l_list, r.fill.v.fill_ratio_l)
                 /\ fill_w_list' = Append(fill_w_list, r.fill.v.fill_ratio_w)
                 /\ taper_list' = Append(taper_list, r.fill.v.taper_ratio)
                 /\ packing_list' = Append(packing_list, r.fill.v.packing_density)
                 /\ detected_materials' = detected_materials \o MaterialVote(r.fill.v)
                 /\ last_reasoning' = NextReasoning(last_reasoning, r.fill.v)
            ELSE UNCHANGED <<fill_l_list, fill_w_list, taper_list, packing_list,
                             detected_materials, last_reasoning>>
    /\ i' = i + 1
    /\ UNCHANGED <<invocations, spec_cell, args, ret, config, backend, script, call, first, pc, height_list, geometry_runs,
                   height_m, params, returned>>

\* A fill round end that tests the vote list instead of the fill sample.
FillRoundEndWrongList ==
    /\ pc = "fill"
    /\ i = config.ensemble_count
    /\ IF detected_materials = <<>>
       THEN /\ returned' = Some(Err("NoValidFill"))
            /\ UNCHANGED params
       ELSE \E m \in mode_string(detected_materials) :
              LET p == CoreParams(height_m,
                                  ClampedMean(fill_l_list, Ranges.fill_ratio_l),
                                  ClampedMean(fill_w_list, Ranges.fill_ratio_w),
                                  ClampedMean(taper_list, Ranges.taper_ratio),
                                  ClampedMean(packing_list, Ranges.packing_density),
                                  IF m.is_some THEN m.v ELSE config.material_type)
                  calc == calculate_tonnage(p, Some(config.truck_class))
              IN  /\ params' = Some(p)
                  /\ returned' = Some(Ok(BoxOverlayResult(p, calc, last_reasoning,
                                                          geometry_runs, fill_runs)))
    /\ pc' = "done"
    /\ UNCHANGED <<invocations, spec_cell, args, ret, config, backend, tape, script, call, first, i, height_list, geometry_runs,
                   height_m, fill_l_list, fill_w_list, taper_list, packing_list, last_reasoning,
                   detected_materials, fill_runs>>

\* The end of the fill loop: NoValidFill on an empty sample, else the clamped
\* means, the material vote, the calculation and the result.
FillRoundEnd ==
    /\ pc = "fill"
    /\ i = config.ensemble_count
    /\ IF fill_l_list = <<>>
       THEN /\ returned' = Some(Err("NoValidFill"))
            /\ UNCHANGED params
       ELSE \E m \in mode_string(detected_materials) :
              LET p == CoreParams(height_m,
                                  ClampedMean(fill_l_list, Ranges.fill_ratio_l),
                                  ClampedMean(fill_w_list, Ranges.fill_ratio_w),
                                  ClampedMean(taper_list, Ranges.taper_ratio),
                                  ClampedMean(packing_list, Ranges.packing_density),
                                  IF m.is_some THEN m.v ELSE config.material_type)
                  calc == calculate_tonnage(p, Some(config.truck_class))
              IN  /\ params' = Some(p)
                  /\ returned' = Some(Ok(BoxOverlayResult(p, calc, last_reasoning,
                                                          geometry_runs, fill_runs)))
    /\ pc' = "done"
    /\ UNCHANGED <<invocations, spec_cell, args, ret, config, backend, tape, script, call, first, i, height_list, geometry_runs,
                   height_m, fill_l_list, fill_w_list, taper_list, packing_list, last_reasoning,
                   detected_materials, fill_runs>>

\* The caller calls analyze_box_overlay again, with the same config and a
\* backend that returns the same sequence of responses.
CallAgain ==
    /\ pc = "done"
    /\ call = 1
    /\ call' = 2
    /\ first' = returned
    /\ script' = tape
    /\ tape' = <<>>
    /\ pc' = "geometry"
    /\ i' = 0
    /\ height_list' = <<>>
    /\ geometry_runs' = <<>>
    /\ height_m' = 0
    /\ fill_l_list' = <<>>
    /\ fill_w_list' = <<>>
    /\ taper_list' = <<>>
    /\ packing_list' = <<>>
    /\ last_reasoning' = ""
    /\ detected_materials' = <<>>
    /\ fill_runs' = <<>>
    /\ params' = NoneV
    /\ returned' = NoneV
    /\ UNCHANGED <<invocations, spec_cell, args, ret, config, backend>>

Next ==
    \/ GeometryTrial
    \/ GeometryRoundEnd
    \/ FillTrial
    \/ FillRoundEnd

Spec == Init /\ [][Next]_vars

\* The pipeline behind a backend whose replies leave fields out: "{}" or a
\* tailgate reading to the geometry prompt, "{}" or a reply with one ratio
\* to the fill prompt.
InitSparse ==
    /\ config \in Configs
    /\ backend = "sparse"
    /\ tape = <<>>
    /\ script = <<>>
    /\ call = 1
    /\ first = NoneV
    /\ pc = "geometry"
    /\ i = 0
    /\ FreshLocals
    /\ returned = NoneV
    /\ args = NoneV
    /\ invocations = NoneV
    /\ spec_cell = NoneV
    /\ ret = NoneV

SpecSparse == InitSparse /\ [][Next]_vars

\* The pipeline behind a backend whose replies differ within one round: in
\* height (and a transport failure) in the geometry round, or in ratios,
\* material and reasoning (and an unparsable reply) in the fill round.
InitPermute ==
    /\ config \in Configs
    /\ backend \in {"order_geometry", "order_fill"}
    /\ tape = <<>>
    /\ script = <<>>
    /\ call = 1
    /\ first = NoneV
    /\ pc = "geometry"
    /\ i = 0
    /\ FreshLocals
    /\ returned = NoneV
    /\ args = NoneV
    /\ invocations = NoneV
    /\ spec_cell = NoneV
    /\ ret = NoneV

\* The tape with sends k and k + 1 exchanged.
Transposed(t, k) ==
    [j \in 1..Len(t) |-> IF j = k THEN t[k + 1] ELSE IF j = k + 1 THEN t[k] ELSE t[j]]

\* The caller calls analyze_box_overlay again, with the same config and a
\* backend that gives the same replies with two neighbours of one round
\* exchanged.
CallAgainTransposed ==
    /\ pc = "done"
    /\ call = 1
    /\ \E k \in 1..(Len(tape) - 1) :
         /\ tape[k].prompt = tape[k + 1].prompt
         /\ script' = Transposed(tape, k)
    /\ call' = 2
    /\ first' = returned
    /\ tape' = <<>>
    /\ pc' = "geometry"
    /\ i' = 0
    /\ height_list' = <<>>
    /\ geometry_runs' = <<>>
    /\ height_m' = 0
    /\ fill_l_list' = <<>>
    /\ fill_w_list' = <<>>
    /\ taper_list' = <<>>
    /\ packing_list' = <<>>
    /\ last_reasoning' = ""
    /\ detected_materials' = <<>>
    /\ fill_runs' = <<>>
    /\ params' = NoneV
    /\ returned' = NoneV
    /\ UNCHANGED <<invocations, spec_cell, args, ret, config, backend>>

NextPermute == Next \/ CallAgainTransposed

SpecPermute == InitPermute /\ [][NextPermute]_vars

\* FillRoundEnd can be taken exactly when the fill loop has run out.
FillRoundEndEnabled == pc = "fill" /\ i = config.ensemble_count

\* The call as it runs: the loops are sequential code and send_prompt
\* returns, so each step that can be taken is taken (weak fairness of every
\* step; for FillRoundEnd with its enabling condition written out).
SpecFair ==
    /\ Spec
    /\ WF_vars(GeometryTrial)
    /\ WF_vars(GeometryRoundEnd)
    /\ WF_vars(FillTrial)
    /\ ([]<>(~FillRoundEndEnabled) \/ []<><<FillRoundEnd>>_vars)

NextRepeat == Next \/ CallAgain

\* One call, then the same call again.
SpecRepeat == Init /\ [][NextRepeat]_vars

\* ------------------------------------------------------------------------
\* Direct callers of the library's functions.  A caller picks the arguments,
\* the function is applied once, and its value is kept in ret.
\* ------------------------------------------------------------------------

\* Largest coordinate of the grid of arguments, in tenths.
CoordMax == 9

\* How far two heights may lie apart and still count as the same number, in
\* millionths: the room the rounding of each arithmetic step leaves between
\* two ways of writing one expression.
Tolerance == 20

\* The variables of analyze_box_overlay while no call of it is in progress.
CallerIdle ==
    /\ config = [truck_class |-> "4t", material_type |-> AsGara, ensemble_count |-> 0]
    /\ backend = "geometry_varied"
    /\ tape = <<>>
    /\ script = <<>>
    /\ call = 1
    /\ first = NoneV
    /\ pc = "idle"
    /\ i = 0
    /\ FreshLocals
    /\ returned = NoneV

\* No call of analyze_box_overlay runs, alone or beside another.
PipelineIdle ==
    /\ CallerIdle
    /\ invocations = NoneV
    /\ spec_cell = NoneV

\* Normalized image coordinates, a little below 0 included.
Coords == {k * (Unit \div 10) : k \in (0 - 2)..CoordMax}

\* Plate boxes: none, and boxes whose normalized height is negative, zero,
\* exactly plate_min_norm, a little above it, and that of a plate in view.
PlateBoxes ==
    {NoneV} \cup
    { Some(<<4 * (Unit \div 10), 7 * (Unit \div 10), 6 * (Unit \div 10), 7 * (Unit \div 10) + ph>>) :
        ph \in {0 - (Unit \div 10), 0, PLATE_MIN_NORM, PLATE_MIN_NORM + 2 * (Unit \div 100),
                14 * (Unit \div 100)} }

BedHeights == {Bed4tHeight, 4 * (Unit \div 10)}

HeightArgs ==
    [ fn : {"height_from_geometry"}, tg_top : Coords, tg_bot : Coords, cargo_top : Coords,
      plate_box : PlateBoxes, bed_height : BedHeights ]

HeightInit ==
    /\ PipelineIdle
    /\ args \in HeightArgs
    /\ ret = NoneV

\* The caller's call of height_from_geometry.
CallHeightFromGeometry ==
    /\ pc = "idle"
    /\ args.fn = "height_from_geometry"
    /\ ret = NoneV
    /\ ret' = Some(height_from_geometry(args.tg_top, args.tg_bot, args.cargo_top,
                                        args.plate_box, args.bed_height))
    /\ UNCHANGED <<invocations, spec_cell, args, config, backend, tape, script, call, first, pc, i, height_list,
                   geometry_runs, height_m, fill_l_list, fill_w_list, taper_list, packing_list,
                   last_reasoning, detected_materials, fill_runs, params, returned>>

\* A caller of height_from_geometry alone.
SpecHeight == HeightInit /\ [][CallHeightFromGeometry]_vars

\* The CoreParams a caller of calculate_tonnage passes: in and out of the
\* declared ranges, a negative ratio included.
TonnageHeights == {0, 16 * (Unit \div 100), 48 * (Unit \div 100), HeightCeiling}

TonnageFillL == {0 - (Unit \div 10), Unit \div 10, 8 * (Unit \div 10), 15 * (Unit \div 10)}

TonnageFillW == {0, 85 * (Unit \div 100)}

TonnageTaper == {5 * (Unit \div 10), 9 * (Unit \div 10)}

TonnagePacking == {3 * (Unit \div 10), 8 * (Unit \div 10), 99 * (Unit \div 100)}

\* Material names: the two on record and one that is not.
MaterialNames == {AsGara, Dosha, "unknown material"}

\* Truck classes: absent, on record, not on record.
TruckClasses == {NoneV, Some("4t"), Some("unknown")}

\* The caller computes the tonnage of one load for two materials.
TonnageArgs ==
    [ fn : {"calculate_tonnage"}, height : TonnageHeights, fill_ratio_l : TonnageFillL,
      fill_ratio_w : TonnageFillW, taper_ratio : TonnageTaper, packing_density : TonnagePacking,
      materials : {m \in MaterialNames \X MaterialNames : m[1] # m[2]}, truck_class : TruckClasses ]

TonnageInit ==
    /\ PipelineIdle
    /\ args \in TonnageArgs
    /\ ret = NoneV

\* The CoreParams of the caller's k-th call.
ParamsOf(a, k) ==
    CoreParams(a.height, a.fill_ratio_l, a.fill_ratio_w, a.taper_ratio, a.packing_density,
               a.materials[k])

\* The caller's two calls of calculate_tonnage, which differ in the material.
CallCalculateTonnage ==
    /\ pc = "idle"
    /\ args.fn = "calculate_tonnage"
    /\ ret = NoneV
    /\ ret' = Some(<<calculate_tonnage(ParamsOf(args, 1), args.truck_class),
                     calculate_tonnage(ParamsOf(args, 2), args.truck_class)>>)
    /\ UNCHANGED <<invocations, spec_cell, args, config, backend, tape, script, call, first, pc, i, height_list,
                   geometry_runs, height_m, fill_l_list, fill_w_list, taper_list, packing_list,
                   last_reasoning, detected_materials, fill_runs, params, returned>>

\* A caller of calculate_tonnage alone.
SpecTonnage == TonnageInit /\ [][CallCalculateTonnage]_vars

\* Every entry point of the calculation: a call of analyze_box_overlay, or a
\* direct call of height_from_geometry or of calculate_tonnage.
InitCalc == Init \/ HeightInit \/ TonnageInit

NextCalc ==
    \/ GeometryTrial
    \/ GeometryRoundEnd
    \/ FillTrial
    \/ FillRoundEnd
    \/ CallHeightFromGeometry
    \/ CallCalculateTonnage

SpecCalc == InitCalc /\ [][NextCalc]_vars

\* ------------------------------------------------------------------------
\* parse_json_safe (src/src/parse.rs), read at the level of the text.
\*
\* A text is a sequence of pieces: the four bytes the scanner looks for,
\* "{", "}", the double quote and the backslash, each a piece of its own;
\* ":"; ","; " " for a run of whitespace; and words such as "reasoning",
\* "text", "null" or "0.8", each a run of bytes that are none of these.
\* The scanner passes over every byte of such a run in the same way, and
\* serde_json reads a run as a whole, so a run stands as one piece.  T is
\* FillResponse as parse.rs declares it.
\* ------------------------------------------------------------------------

NoParse == [ok |-> FALSE]

RECURSIVE SkipWs(_, _)
\* The first position at or after p that holds no whitespace.
SkipWs(t, p) == IF p <= Len(t) /\ t[p] = " " THEN SkipWs(t, p + 1) ELSE p

RECURSIVE StringBodyKeepsEscapes(_, _, _)
\* A reader of string literals that keeps the backslash of an escape.
StringBodyKeepsEscapes(t, p, acc) ==
    IF p > Len(t) THEN NoParse
    ELSE IF t[p] = "\"" THEN [ok |-> TRUE, next |-> p + 1, val |-> [kind |-> "string", s |-> acc]]
    ELSE IF t[p] = "\\"
    THEN IF p + 1 <= Len(t) /\ t[p + 1] \in {"\"", "\\"}
         THEN StringBodyKeepsEscapes(t, p + 2, acc \o <<t[p], t[p + 1]>>)
         ELSE NoParse
    ELSE StringBodyKeepsEscapes(t, p + 1, Append(acc, t[p]))

RECURSIVE StringBody(_, _, _)
\* serde_json reading a string literal from after its opening quote: the
\* only escapes these texts can spell are \" and \\.
StringBody(t, p, acc) ==
    IF p > Len(t) THEN NoParse
    ELSE IF t[p] = "\"" THEN [ok |-> TRUE, next |-> p + 1, val |-> [kind |-> "string", s |-> acc]]
    ELSE IF t[p] = "\\"
    THEN IF p + 1 <= Len(t) /\ t[p + 1] \in {"\"", "\\"}
         THEN StringBody(t, p + 2, Append(acc, t[p + 1]))
         ELSE NoParse
    ELSE StringBody(t, p + 1, Append(acc, t[p]))

\* The number literals these texts spell, and the f64 each one reads as: the
\* four defaults and the 0.75 of a reply.
NumberPieces == {"0.8", "0.7", "0.85", "0.75"}

NumberOf(piece) ==
    CASE piece = "0.8"  -> default_fill_l
      [] piece = "0.7"  -> default_fill_w
      [] piece = "0.85" -> default_taper
      [] piece = "0.75" -> 3 * (Unit \div 4)

\* The field names of FillResponse under rename_all = "camelCase".
NumberFields == {"fillRatioL", "fillRatioW", "taperRatio", "packingDensity"}

RECURSIVE ParseValue(_, _)
RECURSIVE ParseMembers(_, _, _)
\* serde_json reading the JSON value that starts at p: a string, null, a
\* number, or an object.
ParseValue(t, p) ==
    IF p > Len(t) THEN NoParse
    ELSE IF t[p] = "\"" THEN StringBody(t, p + 1, <<>>)
    ELSE IF t[p] = "null" THEN [ok |-> TRUE, next |-> p + 1, val |-> [kind |-> "null"]]
    ELSE IF t[p] \in NumberPieces
    THEN [ok |-> TRUE, next |-> p + 1, val |-> [kind |-> "number", n |-> NumberOf(t[p])]]
    ELSE IF t[p] # "{" THEN NoParse
    ELSE LET q == SkipWs(t, p + 1) IN
         IF q <= Len(t) /\ t[q] = "}"
         THEN [ok |-> TRUE, next |-> q + 1, val |-> [kind |-> "object", members |-> <<>>]]
         ELSE ParseMembers(t, q, <<>>)

\* serde_json reading the members of an object from the member that starts
\* at q on; acc holds the members read so far.
ParseMembers(t, q, acc) ==
    IF q > Len(t) \/ t[q] # "\"" THEN NoParse
    ELSE LET k == StringBody(t, q + 1, <<>>) IN
         IF ~k.ok THEN NoParse
         ELSE LET c == SkipWs(t, k.next) IN
              IF c > Len(t) \/ t[c] # ":" THEN NoParse
              ELSE LET v == ParseValue(t, SkipWs(t, c + 1)) IN
                   IF ~v.ok THEN NoParse
                   ELSE LET e       == SkipWs(t, v.next)
                            members == Append(acc, [key |-> k.val.s, value |-> v.val])
                        IN  IF e > Len(t) THEN NoParse
                            ELSE IF t[e] = "}"
                            THEN [ok |-> TRUE, next |-> e + 1,
                                  val |-> [kind |-> "object", members |-> members]]
                            ELSE IF t[e] = "," THEN ParseMembers(t, SkipWs(t, e + 1), members)
                            ELSE NoParse

\* The members of an object that carry the field `name`.
MembersNamed(m, name) == {k \in 1..Len(m) : m[k].key = <<name>>}

\* serde_json::from_str::<FillResponse>(text): the whole text must be one
\* JSON value, an object; each field may be given once; a number field must
\* hold a number, reasoning a string or null; a member of any other name is
\* ignored; a field not given takes its default.
from_str(t) ==
    LET r == ParseValue(t, SkipWs(t, 1)) IN
    IF ~r.ok THEN Err("serde_json::Error")
    ELSE IF SkipWs(t, r.next) # Len(t) + 1 THEN Err("serde_json::Error")
    ELSE IF r.val.kind # "object" THEN Err("serde_json::Error")
    ELSE LET m == r.val.members
             one(name) == CHOOSE k \in MembersNamed(m, name) : TRUE
             number(name, default) ==
                 IF MembersNamed(m, name) = {} THEN default ELSE m[one(name)].value.n
         IN  IF \E f \in NumberFields \cup {"reasoning"} : Cardinality(MembersNamed(m, f)) > 1
             THEN Err("serde_json::Error")
             ELSE IF \E f \in NumberFields : \E k \in MembersNamed(m, f) : m[k].value.kind # "number"
             THEN Err("serde_json::Error")
             ELSE IF \E k \in MembersNamed(m, "reasoning") : m[k].value.kind \notin {"string", "null"}
             THEN Err("serde_json::Error")
             ELSE Ok(FillResponse(number("fillRatioL", default_fill_l),
                                  number("fillRatioW", default_fill_w),
                                  number("taperRatio", default_taper),
                                  number("packingDensity", default_packing),
                                  NoneV,
                                  IF MembersNamed(m, "reasoning") = {} THEN NoneV
                                  ELSE IF m[one("reasoning")].value.kind = "null" THEN NoneV
                                  ELSE Some(m[one("reasoning")].value.s)))

\* text.find('{'): the first position of "{", 0 if there is none.
FindBrace(t) ==
    IF \E k \in 1..Len(t) : t[k] = "{"
    THEN CHOOSE k \in 1..Len(t) : t[k] = "{" /\ \A j \in 1..(k - 1) : t[j] # "{"
    ELSE 0

RECURSIVE ScanBracesOnly(_, _, _, _, _)
\* A scanner that counts every brace, string literal or not.
ScanBracesOnly(t, k, depth, in_string, escape) ==
    IF k > Len(t) THEN 0
    ELSE LET d == IF t[k] = "{" THEN depth + 1
                  ELSE IF t[k] = "}" THEN depth - 1
                  ELSE depth
         IN  IF d = 0 THEN k ELSE ScanBracesOnly(t, k + 1, d, in_string, escape)

RECURSIVE Scan(_, _, _, _, _)
\* The loop `for i in start..bytes.len()`: the position at which depth
\* returns to zero, 0 if the text ends first.
Scan(t, k, depth, in_string, escape) ==
    IF k > Len(t) THEN 0
    ELSE IF escape THEN Scan(t, k + 1, depth, in_string, FALSE)
    ELSE IF t[k] = "\\" /\ in_string THEN Scan(t, k + 1, depth, in_string, TRUE)
    ELSE IF t[k] = "\"" THEN Scan(t, k + 1, depth, ~in_string, FALSE)
    ELSE IF in_string THEN Scan(t, k + 1, depth, in_string, FALSE)
    ELSE LET d == IF t[k] = "{" THEN depth + 1
                  ELSE IF t[k] = "}" THEN depth - 1
                  ELSE depth
         IN  IF d = 0 THEN k ELSE Scan(t, k + 1, d, in_string, FALSE)

\* The three ParseError messages; the third carries serde_json's error, which
\* is a function of the text it was given (the cause).
NoJsonObject == [message |-> "no JSON object found", cause |-> <<>>]

IncompleteJson == [message |-> "incomplete JSON object", cause |-> <<>>]

ParseFailedAfterExtract(extracted) ==
    [message |-> "parse failed after extraction", cause |-> extracted]

\* A parse_json_safe without the fallback: the direct parse or nothing.
parse_json_safe_direct_only(text) ==
    IF from_str(text).ok THEN from_str(text)
    ELSE Err(ParseFailedAfterExtract(text))

\* A parse_json_safe that, when the text ends before the depth returns to
\* zero, takes everything from the first "{" as the candidate.
parse_json_safe_to_end_of_text(text) ==
    IF from_str(text).ok THEN from_str(text)
    ELSE LET start == FindBrace(text) IN
         IF start = 0 THEN Err(NoJsonObject)
         ELSE LET end       == Scan(text, start, 0, FALSE, FALSE)
                  extracted == SubSeq(text, start, IF end = 0 THEN Len(text) ELSE end)
              IN  IF from_str(extracted).ok THEN from_str(extracted)
                  ELSE Err(ParseFailedAfterExtract(extracted))

parse_json_safe(text) ==
    IF from_str(text).ok THEN from_str(text)
    ELSE LET start == FindBrace(text) IN
         IF start = 0 THEN Err(NoJsonObject)
         ELSE LET end == Scan(text, start, 0, FALSE, FALSE) IN
              IF end = 0 THEN Err(IncompleteJson)
              ELSE LET extracted == SubSeq(text, start, end) IN
                   IF from_str(extracted).ok THEN from_str(extracted)
                   ELSE Err(ParseFailedAfterExtract(extracted))

\* What may stand before the object: nothing, prose, a code fence's opening
\* line (a word and a line break), prose with a quote in it, prose with
\* braces in it.
Prefixes ==
    { <<>>, <<" ">>, <<"text", " ">>, <<"text", "\"", "text", " ">>,
      <<"text", "{", "text", "}", " ">>, <<"text", "{", " ">>, <<"text", "}", " ">> }

\* JSON objects: empty, with and without inner whitespace, with a reasoning,
\* with braces, a lone closing brace, an escaped quote and a backslash inside
\* a string, with a nested object, and one whose reasoning is no string.
Objects ==
    { <<"{", "}">>,
      <<"{", " ", "}">>,
      <<"{", "\"", "reasoning", "\"", ":", "\"", "text", "\"", "}">>,
      <<"{", " ", "\"", "reasoning", "\"", " ", ":", " ", "\"", "text", " ", "text", "\"", " ", "}">>,
      <<"{", "\"", "reasoning", "\"", ":", "\"", "{", "text", "}", "\"", "}">>,
      <<"{", "\"", "reasoning", "\"", ":", "\"", "}", "\"", "}">>,
      <<"{", "\"", "reasoning", "\"", ":", "\"", "\\", "\"", "}", "\"", "}">>,
      <<"{", "\"", "reasoning", "\"", ":", "\"", "text", "\\", "\\", "\"", "}">>,
      <<"{", "\"", "text", "\"", ":", "{", "\"", "reasoning", "\"", ":", "\"", "text", "\"", "}", "}">>,
      <<"{", "\"", "reasoning", "\"", ":", "{", "}", "}">> }

\* What may stand after the object: nothing, prose, a code fence's closing
\* line, and text with a brace or a quote in it.
Suffixes ==
    { <<>>, <<" ">>, <<" ", "text">>, <<"}">>, <<" ", "{", "text">>, <<"\"", "text">>,
      <<" ", "{", "}">> }

ParseArgs == [fn : {"parse_json_safe"}, prefix : Prefixes, object : Objects, suffix : Suffixes]

ParseInit ==
    /\ PipelineIdle
    /\ args \in ParseArgs
    /\ ret = NoneV

\* The text the caller hands over.
TextOf(a) == IF "text" \in DOMAIN a THEN a.text ELSE a.prefix \o a.object \o a.suffix

\* The caller's call of parse_json_safe::<FillResponse>, that is, parse_fill.
CallParseJsonSafe ==
    /\ pc = "idle"
    /\ args.fn = "parse_json_safe"
    /\ ret = NoneV
    /\ ret' = Some(parse_json_safe(TextOf(args)))
    /\ UNCHANGED <<invocations, spec_cell, args, config, backend, tape, script, call, first, pc, i, height_list,
                   geometry_runs, height_m, fill_l_list, fill_w_list, taper_list, packing_list,
                   last_reasoning, detected_materials, fill_runs, params, returned>>

\* A caller of parse_json_safe alone.
SpecParse == ParseInit /\ [][CallParseJsonSafe]_vars

\* Longest text of the scanner's callers, in pieces.
MaxText == 5

\* The pieces the scanner tells apart: the two braces, the quote, the
\* backslash, and anything else.
ScanPieces == {"{", "}", "\"", "\\", "text"}

RECURSIVE TextsOfLength(_)
TextsOfLength(n) ==
    IF n = 0 THEN {<<>>}
    ELSE {Append(t, c) : t \in TextsOfLength(n - 1), c \in ScanPieces}

\* Every text of at most MaxText pieces, the empty one included.
Texts == UNION {TextsOfLength(n) : n \in 0..MaxText}

ScanInit ==
    /\ PipelineIdle
    /\ args \in [fn : {"parse_json_safe"}, text : Texts]
    /\ ret = NoneV

\* A caller of parse_json_safe with any text at all.
SpecScan == ScanInit /\ [][CallParseJsonSafe]_vars

RECURSIVE Escaped(_)
\* The content of a string as serde_json writes it: a backslash before every
\* quote and every backslash.
Escaped(str) ==
    IF str = <<>> THEN <<>>
    ELSE (IF Head(str) \in {"\"", "\\"} THEN <<"\\", Head(str)>> ELSE <<Head(str)>>)
         \o Escaped(Tail(str))

\* An f64 as serde_json writes it: the shortest literal that reads back as it.
FormatNumber(v) == CHOOSE piece \in NumberPieces : NumberOf(piece) = v

\* serde_json::to_string of a FillResponse (derive(Serialize), camelCase):
\* the fields parse.rs declares, in their order.
to_string(fill) ==
    <<"{", "\"", "fillRatioL", "\"", ":", FormatNumber(fill.fill_ratio_l), ",",
           "\"", "fillRatioW", "\"", ":", FormatNumber(fill.fill_ratio_w), ",",
           "\"", "taperRatio", "\"", ":", FormatNumber(fill.taper_ratio), ",",
           "\"", "packingDensity", "\"", ":", FormatNumber(fill.packing_density), ",",
           "\"", "reasoning", "\"", ":">>
    \o (IF fill.reasoning.is_some
        THEN <<"\"">> \o Escaped(fill.reasoning.v) \o <<"\"">>
        ELSE <<"null">>)
    \o <<"}">>

\* Fill replies: empty, one field, several fields, reasoning null, reasoning
\* with a quote, braces and a backslash in it, a field under a member of
\* another name, a number given as a string, a field given twice.
ReplyObjects ==
    { <<"{", "}">>,
      <<"{", "\"", "fillRatioL", "\"", ":", "0.75", "}">>,
      <<"{", "\"", "fillRatioL", "\"", ":", "0.75", ",", " ", "\"", "reasoning", "\"", ":", "null", "}">>,
      <<"{", "\"", "fillRatioL", "\"", ":", "0.75", ",", "\"", "reasoning", "\"", ":",
             "\"", "\\", "\"", "}", "\"", "}">>,
      <<"{", "\"", "taperRatio", "\"", ":", "0.8", ",", "\"", "packingDensity", "\"", ":", "0.85", ",",
             "\"", "reasoning", "\"", ":", "\"", "{", "text", "\\", "\\", "\"", "}">>,
      <<"{", "\"", "reasoning", "\"", ":", "\"", "text", "\"", ",",
             "\"", "fillRatioW", "\"", ":", "0.85", "}">>,
      <<"{", "\"", "text", "\"", ":", "{", "\"", "fillRatioL", "\"", ":", "0.7", "}", "}">>,
      <<"{", "\"", "fillRatioL", "\"", ":", "\"", "0.8", "\"", "}">>,
      <<"{", "\"", "fillRatioL", "\"", ":", "0.8", ",", "\"", "fillRatioL", "\"", ":", "0.7", "}">> }

ReparseInit ==
    /\ PipelineIdle
    /\ args \in [fn : {"parse_json_safe"}, prefix : Prefixes, object : ReplyObjects, suffix : Suffixes]
    /\ ret = NoneV

\* The caller serializes the structure it got and hands the text to
\* parse_json_safe once more.
SerializeAndParseAgain ==
    /\ pc = "idle"
    /\ args.fn = "parse_json_safe"
    /\ "parsed_before" \notin DOMAIN args
    /\ ret.is_some
    /\ ret.v.ok
    /\ args' = [fn |-> "parse_json_safe", text |-> to_string(ret.v.v), parsed_before |-> ret.v.v]
    /\ ret' = NoneV
    /\ UNCHANGED <<invocations, spec_cell, config, backend, tape, script, call, first, pc, i, height_list,
                   geometry_runs, height_m, fill_l_list, fill_w_list, taper_list, packing_list,
                   last_reasoning, detected_materials, fill_runs, params, returned>>

NextReparse == CallParseJsonSafe \/ SerializeAndParseAgain

\* A caller that parses a reply, serializes what it got, and parses that.
SpecReparse == ReparseInit /\ [][NextReparse]_vars

\* ------------------------------------------------------------------------
\* validate_params and clamp_params (src/src/validation.rs)
\* ------------------------------------------------------------------------

\* SPEC.ranges as validation.rs reads it. The ends come from the comments and
\* assertions of the crate's tests; no test pins upper_area's max, height's
\* min or fill_ratio_z's max, which are set past the values the tests call
\* valid.
upper_area_min == 200000

upper_area_max == 600000

height_min == 0

height_max == 800000

slope_min == 0

slope_max == 300000

fill_ratio_z_min == 750000

fill_ratio_z_max == 900000

ValidatedRanges ==
    [ upper_area      |-> [min |-> upper_area_min, max |-> upper_area_max],
      height          |-> [min |-> height_min, max |-> height_max],
      slope           |-> [min |-> slope_min, max |-> slope_max],
      fill_ratio_l    |-> Ranges.fill_ratio_l,
      fill_ratio_w    |-> Ranges.fill_ratio_w,
      fill_ratio_z    |-> [min |-> fill_ratio_z_min, max |-> fill_ratio_z_max],
      packing_density |-> Ranges.packing_density ]

\* ValidationError; the message is the range written to two decimals.
ValidationError(field, value, range) ==
    [ field |-> field, value |-> value, min |-> range.min, max |-> range.max,
      message |-> <<"out of range", round2(range.min), round2(range.max)>> ]

check_range_exclusive(field, value, range, errors) ==
    IF value <= range.min \/ value >= range.max
    THEN Append(errors, ValidationError(field, value, range))
    ELSE errors

check_range(field, value, range, errors) ==
    IF value < range.min \/ value > range.max
    THEN Append(errors, ValidationError(field, value, range))
    ELSE errors

check_height_range(field, value, range, errors) ==
    IF value < range.min \/ value > range.max
    THEN Append(errors, ValidationError(field, value, range))
    ELSE errors

validate_params(p) ==
    LET ranges == ValidatedRanges
        e0 == <<>>
        e1 == IF p.upper_area.is_some
              THEN check_range("upperArea", p.upper_area.v, ranges.upper_area, e0) ELSE e0
        e2 == IF p.height.is_some
              THEN check_height_range("height", p.height.v, ranges.height, e1) ELSE e1
        e3 == IF p.slope.is_some
              THEN check_range("slope", p.slope.v, ranges.slope, e2) ELSE e2
        e4 == IF p.fill_ratio_l.is_some
              THEN check_range("fillRatioL", p.fill_ratio_l.v, ranges.fill_ratio_l, e3) ELSE e3
        e5 == IF p.fill_ratio_w.is_some
              THEN check_range("fillRatioW", p.fill_ratio_w.v, ranges.fill_ratio_w, e4) ELSE e4
        e6 == IF p.fill_ratio_z.is_some
              THEN check_range("fillRatioZ", p.fill_ratio_z.v, ranges.fill_ratio_z, e5) ELSE e5
        e7 == IF p.packing_density.is_some
              THEN check_range("packingDensity", p.packing_density.v, ranges.packing_density, e6) ELSE e6
    IN  e7

\* Option::map(|v| v.clamp(min, max)).
MapClamp(opt, range) == IF opt.is_some THEN Some(Clamp(opt.v, range.min, range.max)) ELSE NoneV

clamp_params_from_below(p) ==
    LET r == ValidatedRanges
        MapClampFromBelow(opt, range) ==
            IF opt.is_some /\ opt.v < range.min THEN Some(range.min) ELSE opt
    IN  [ upper_area      |-> MapClampFromBelow(p.upper_area, r.upper_area),
          height          |-> MapClampFromBelow(p.height, r.height),
          slope           |-> MapClampFromBelow(p.slope, r.slope),
          fill_ratio_l    |-> MapClampFromBelow(p.fill_ratio_l, r.fill_ratio_l),
          fill_ratio_w    |-> MapClampFromBelow(p.fill_ratio_w, r.fill_ratio_w),
          fill_ratio_z    |-> MapClampFromBelow(p.fill_ratio_z, r.fill_ratio_z),
          packing_density |-> MapClampFromBelow(p.packing_density, r.packing_density) ]

clamp_params(p) ==
    LET r == ValidatedRanges
    IN  [ upper_area      |-> MapClamp(p.upper_area, r.upper_area),
          height          |-> MapClamp(p.height, r.height),
          slope           |-> MapClamp(p.slope, r.slope),
          fill_ratio_l    |-> MapClamp(p.fill_ratio_l, r.fill_ratio_l),
          fill_ratio_w    |-> MapClamp(p.fill_ratio_w, r.fill_ratio_w),
          fill_ratio_z    |-> MapClamp(p.fill_ratio_z, r.fill_ratio_z),
          packing_density |-> MapClamp(p.packing_density, r.packing_density) ]

\* What a caller may hand in: each field absent or one of a few values the
\* tests use, below, at, inside or above its range.
Provided(values) == {NoneV} \cup {Some(v) : v \in values}

EstimationParamsInputs ==
    [ upper_area      : Provided({100000, 200000, 400000, 700000}),
      height          : Provided({-100000, 450000, 800000, 1500000}),
      slope           : Provided({0, 100000, 500000}),
      fill_ratio_l    : Provided({-100000, 900000, 1500000}),
      fill_ratio_w    : Provided({0, 900000, 1500000}),
      fill_ratio_z    : Provided({500000, 750000, 850000}),
      packing_density : Provided({300000, 700000, 950000}) ]

ValidateInit ==
    /\ PipelineIdle
    /\ args \in [fn : {"validate_params", "clamp_params"}, params : EstimationParamsInputs]
    /\ ret = NoneV

IdlePipelineUnchanged ==
    UNCHANGED <<invocations, spec_cell, config, backend, tape, script, call, first, pc, i, height_list,
                geometry_runs, height_m, fill_l_list, fill_w_list, taper_list, packing_list,
                last_reasoning, detected_materials, fill_runs, params, returned>>

CallValidateParams ==
    /\ pc = "idle"
    /\ args.fn = "validate_params"
    /\ ~ret.is_some
    /\ ret' = Some(validate_params(args.params))
    /\ UNCHANGED args
    /\ IdlePipelineUnchanged

CallClampParams ==
    /\ pc = "idle"
    /\ args.fn = "clamp_params"
    /\ ~ret.is_some
    /\ ret' = Some(clamp_params(args.params))
    /\ UNCHANGED args
    /\ IdlePipelineUnchanged

\* The caller hands the clamped parameters to validate_params.
ValidateClamped ==
    /\ pc = "idle"
    /\ args.fn = "clamp_params"
    /\ ret.is_some
    /\ args' = [fn |-> "validate_params", params |-> ret.v, clamped_from |-> args.params]
    /\ ret' = NoneV
    /\ IdlePipelineUnchanged

NextValidate == CallValidateParams \/ CallClampParams \/ ValidateClamped

\* A caller of the range validator.
SpecValidate == ValidateInit /\ [][NextValidate]_vars

\* ------------------------------------------------------------------------
\* Several calls of analyze_box_overlay at once.  Each call has its own
\* locals (the `let mut` vectors of the function body); the calls share the
\* static SPEC, a LazyLock that is filled by whichever call reads it first.
\* ------------------------------------------------------------------------

InterleavedEnsemble == 2

Invocations == {1, 2}

\* What the LazyLock holds once read: the parsed prompt-spec.json.
PromptSpec == [truck_specs |-> TruckSpecs, ranges |-> Ranges, materials |-> Materials]

\* LazyLock::force: the value is built on the first read and kept.
Forced(cell) == IF cell.is_some THEN cell ELSE Some(PromptSpec)

\* The locals of a call that has not yet run its first statement.
CallLocals(cfg, b) ==
    [ config |-> cfg, backend |-> b, tape |-> <<>>, pc |-> "start", i |-> 0,
      bed_height |-> 0, height_list |-> <<>>, geometry_runs |-> <<>>, height_m |-> 0,
      fill_l_list |-> <<>>, fill_w_list |-> <<>>, taper_list |-> <<>>, packing_list |-> <<>>,
      last_reasoning |-> "", detected_materials |-> <<>>, fill_runs |-> <<>>,
      returned |-> NoneV ]

\* `let spec = &*SPEC` and the bed-height lookup.
Started(loc, spec) ==
    [loc EXCEPT !.pc = "geometry",
                !.bed_height = IF loc.config.truck_class \in DOMAIN spec.truck_specs
                               THEN spec.truck_specs[loc.config.truck_class].bed_height
                               ELSE DefaultBedHeight]

\* One iteration of the geometry loop on the locals of one call.
AfterGeometryTrial(loc, sent) ==
    LET r == GeometryRun(sent, loc.bed_height) IN
    [loc EXCEPT !.tape = Append(@, [prompt |-> GEOMETRY_PROMPT, reply |-> sent]),
                !.geometry_runs = Append(@, r.run),
                !.height_list = IF r.h.is_some THEN Append(@, r.h.v) ELSE @,
                !.i = @ + 1]

\* The end of the geometry loop on the locals of one call.
AfterGeometryRound(loc) ==
    IF loc.height_list = <<>>
    THEN [loc EXCEPT !.returned = Some(Err("NoValidGeometry")), !.pc = "done"]
    ELSE [loc EXCEPT !.height_m = median(loc.height_list), !.pc = "fill", !.i = 0]

\* One iteration of the fill loop on the locals of one call.
AfterFillTrial(loc, sent) ==
    LET r == FillRun(sent)
        logged == [loc EXCEPT !.tape = Append(@, [prompt |-> FILL_PROMPT, reply |-> sent]),
                              !.fill_runs = Append(@, r.run),
                              !.i = @ + 1]
    IN  IF r.fill.is_some
        THEN [logged EXCEPT !.fill_l_list = Append(@, r.fill.v.fill_ratio_l),
                            !.fill_w_list = Append(@, r.fill.v.fill_ratio_w),
                            !.taper_list = Append(@, r.fill.v.taper_ratio),
                            !.packing_list = Append(@, r.fill.v.packing_density),
                            !.detected_materials = @ \o MaterialVote(r.fill.v),
                            !.last_reasoning = NextReasoning(@, r.fill.v)]
        ELSE logged

\* The end of the fill loop on the locals of one call, m being what
\* mode_string returned.
AfterFillRound(loc, m, ranges) ==
    IF loc.fill_l_list = <<>>
    THEN [loc EXCEPT !.returned = Some(Err("NoValidFill")), !.pc = "done"]
    ELSE LET p == CoreParams(loc.height_m,
                             ClampedMean(loc.fill_l_list, ranges.fill_ratio_l),
                             ClampedMean(loc.fill_w_list, ranges.fill_ratio_w),
                             ClampedMean(loc.taper_list, ranges.taper_ratio),
                             ClampedMean(loc.packing_list, ranges.packing_density),
                             IF m.is_some THEN m.v ELSE loc.config.material_type)
             calc == calculate_tonnage(p, Some(loc.config.truck_class))
         IN  [loc EXCEPT !.returned = Some(Ok(BoxOverlayResult(p, calc, loc.last_reasoning,
                                                               loc.geometry_runs, loc.fill_runs))),
                         !.pc = "done"]

\* Two calls, each with its own config and its own backend.
InterleavedInit ==
    /\ CallerIdle
    /\ args = NoneV
    /\ ret = NoneV
    /\ spec_cell = NoneV
    /\ invocations =
         [p \in Invocations |->
            IF p = 1
            THEN CallLocals([truck_class |-> "4t", material_type |-> AsGara,
                             ensemble_count |-> InterleavedEnsemble], "order_fill")
            ELSE CallLocals([truck_class |-> "unknown", material_type |-> Dosha,
                             ensemble_count |-> InterleavedEnsemble], "order_geometry")]

CallerUnchanged ==
    UNCHANGED <<config, backend, tape, script, call, first, pc, i, height_list,
                geometry_runs, height_m, fill_l_list, fill_w_list, taper_list, packing_list,
                last_reasoning, detected_materials, fill_runs, params, returned, args, ret>>

\* A geometry trial whose height lands in a sample every call pushes to, as
\* a buffer kept in a static would be.
InvocationGeometryTrialSharedSample(p) ==
    /\ invocations[p].pc = "geometry"
    /\ invocations[p].i < invocations[p].config.ensemble_count
    /\ \E sent \in send_prompt(invocations[p].backend, GEOMETRY_PROMPT) :
         LET after == AfterGeometryTrial(invocations[p], sent) IN
         invocations' = [q \in Invocations |->
                            IF q = p THEN after
                            ELSE [invocations[q] EXCEPT !.height_list =
                                     @ \o SubSeq(after.height_list,
                                                 Len(invocations[p].height_list) + 1,
                                                 Len(after.height_list))]]
    /\ UNCHANGED spec_cell
    /\ CallerUnchanged

InvocationStart(p) ==
    /\ invocations[p].pc = "start"
    /\ spec_cell' = Forced(spec_cell)
    /\ invocations' = [invocations EXCEPT ![p] = Started(@, spec_cell'.v)]
    /\ CallerUnchanged

InvocationGeometryTrial(p) ==
    /\ invocations[p].pc = "geometry"
    /\ invocations[p].i < invocations[p].config.ensemble_count
    /\ \E sent \in send_prompt(invocations[p].backend, GEOMETRY_PROMPT) :
         invocations' = [invocations EXCEPT ![p] = AfterGeometryTrial(@, sent)]
    /\ UNCHANGED spec_cell
    /\ CallerUnchanged

InvocationGeometryRoundEnd(p) ==
    /\ invocations[p].pc = "geometry"
    /\ invocations[p].i = invocations[p].config.ensemble_count
    /\ invocations' = [invocations EXCEPT ![p] = AfterGeometryRound(@)]
    /\ UNCHANGED spec_cell
    /\ CallerUnchanged

InvocationFillTrial(p) ==
    /\ invocations[p].pc = "fill"
    /\ invocations[p].i < invocations[p].config.ensemble_count
    /\ \E sent \in send_prompt(invocations[p].backend, FILL_PROMPT) :
         invocations' = [invocations EXCEPT ![p] = AfterFillTrial(@, sent)]
    /\ UNCHANGED spec_cell
    /\ CallerUnchanged

InvocationFillRoundEnd(p) ==
    /\ invocations[p].pc = "fill"
    /\ invocations[p].i = invocations[p].config.ensemble_count
    /\ \E m \in mode_string(invocations[p].detected_materials) :
         invocations' = [invocations EXCEPT ![p] = AfterFillRound(@, m, spec_cell.v.ranges)]
    /\ UNCHANGED spec_cell
    /\ CallerUnchanged

\* Any call takes its next step.
NextInterleaved ==
    \E p \in Invocations :
        \/ InvocationStart(p)
        \/ InvocationGeometryTrial(p)
        \/ InvocationGeometryRoundEnd(p)
        \/ InvocationFillTrial(p)
        \/ InvocationFillRoundEnd(p)

SpecInterleaved == InterleavedInit /\ [][NextInterleaved]_vars

\* ------------------------------------------------------------------------
\* What the claims speak of, read off the tape of sends
\* ------------------------------------------------------------------------

GeoSends == SelectSeq(tape, LAMBDA e : e.prompt = GEOMETRY_PROMPT)

FillSends == SelectSeq(tape, LAMBDA e : e.prompt = FILL_PROMPT)

\* The raw text a send left: the reply, or nothing on a transport error.
Raw(sent) == IF sent.ok THEN sent.v ELSE ""

\* A geometry reply that gives no height: a transport error, an unparsable
\* text, tailgateTopY <= 0, or a resolver verdict of "none".
Unusable(sent) ==
    \/ ~sent.ok
    \/ ~parse_geometry(sent.v).ok
    \/ LET g == parse_geometry(sent.v).v IN
       \/ g.tailgate_top_y <= 0
       \/ height_from_geometry(g.tailgate_top_y, g.tailgate_bottom_y, g.cargo_top_y,
                               g.plate_box, bed_height(config.truck_class))[2] = "none"

AllGeometryUnusable == \A k \in 1..Len(GeoSends) : Unusable(GeoSends[k].reply)

\* A fill reply that was sent and parsed.
FillParsed(sent) == sent.ok /\ parse_fill(sent.v).ok

\* The parsed fills of the call, in trial order.
ParsedFills ==
    LET ok == SelectSeq(FillSends, LAMBDA e : FillParsed(e.reply))
    IN  [k \in 1..Len(ok) |-> parse_fill(ok[k].reply.v).v]

Field(fills, f) == [k \in 1..Len(fills) |-> fills[k][f]]

\* The materials voted for: present, non-empty and not "?".
Votes ==
    LET voting == SelectSeq(ParsedFills, LAMBDA f :
                      f.material_type.is_some /\ f.material_type.v \notin {"", "?"})
    IN  [k \in 1..Len(voting) |-> voting[k].material_type.v]

Returned(r) == pc = "done" /\ returned = Some(r)

ReturnedOk == pc = "done" /\ returned.is_some /\ returned.v.ok

InRange(v, range) == range.min <= v /\ v <= range.max

\* ------------------------------------------------------------------------
\* Claims
\* ------------------------------------------------------------------------

\* C1: the call fails with NoValidGeometry exactly when, after all
\* ensemble_count geometry trials (ensemble_count = 0 included), no trial gave
\* a height: every reply was a transport error, unparsable, had
\* tailgateTopY <= 0 or resolved to "none".  One usable trial gets past it.
C1_NoValidGeometry ==
    pc = "done" =>
        /\ Returned(Err("NoValidGeometry")) <=> AllGeometryUnusable
        /\ Returned(Err("NoValidGeometry")) => Len(GeoSends) = config.ensemble_count

\* C1 witness: NoValidGeometry after a transport error, an unparsable text, a
\* tailgateTopY of 0 or a reply the resolver rejects.
C1_Witness ==
    /\ Returned(Err("NoValidGeometry"))
    /\ Len(GeoSends) >= 2
    /\ \E k \in 1..Len(GeoSends) : ~GeoSends[k].reply.ok
    /\ \E k \in 1..Len(GeoSends) : GeoSends[k].reply \in {Ok(G_TOP_ZERO), Ok(G_NO_REFERENCE)}

\* C2: once the geometry round gave a height, the call fails with NoValidFill
\* exactly when no fill trial was both sent and parsed; otherwise it returns
\* a result.
C2_NoValidFill ==
    (pc = "done" /\ ~AllGeometryUnusable) =>
        /\ Returned(Err("NoValidFill")) <=>
               (\A k \in 1..Len(FillSends) : ~FillParsed(FillSends[k].reply))
        /\ ~Returned(Err("NoValidFill")) => ReturnedOk

\* C2 witness: NoValidFill after a transport error and an unparsable text.
C2_Witness ==
    /\ Returned(Err("NoValidFill"))
    /\ \E k \in 1..Len(FillSends) : ~FillSends[k].reply.ok
    /\ \E k \in 1..Len(FillSends) : FillSends[k].reply = Ok(F_BAD)

\* C3: a failed trial never ends its round or the call: each round makes all
\* its ensemble_count sends, the call ends only as a result, NoValidGeometry
\* or NoValidFill, and a result carries ensemble_count geometry entries and
\* ensemble_count fill entries, the k-th being that of the k-th trial.
C3_TrialFailuresStayLocal ==
    /\ pc # "geometry" => Len(GeoSends) = config.ensemble_count
    /\ pc = "done" =>
         \/ returned.v \in {Err("NoValidGeometry"), Err("NoValidFill")}
         \/ /\ returned.v.ok
            /\ Len(FillSends) = config.ensemble_count
            /\ Len(returned.v.v.geometry_runs) = config.ensemble_count
            /\ Len(returned.v.v.fill_runs) = config.ensemble_count
            /\ \A k \in 1..config.ensemble_count :
                 /\ returned.v.v.geometry_runs[k].raw_response = Raw(GeoSends[k].reply)
                 /\ returned.v.v.fill_runs[k].raw_response = Raw(FillSends[k].reply)

\* C3 witness: a result returned although a geometry trial met a transport
\* error and a fill trial did not parse.
C3_Witness ==
    /\ ReturnedOk
    /\ \E k \in 1..Len(GeoSends) : ~GeoSends[k].reply.ok
    /\ \E k \in 1..Len(FillSends) : ~FillParsed(FillSends[k].reply)

\* C4 as claimed: a run ending in NoValidGeometry has issued ensemble_count
\* fill-prompt sends.
C4_FillStillSent ==
    Returned(Err("NoValidGeometry")) => Len(FillSends) = config.ensemble_count

\* C4 as the code has it: when every geometry trial fails, the call fails with
\* NoValidGeometry at the end of the geometry round and no fill prompt is
\* sent.
C4_NoFillAfterGeometryFailure ==
    (pc # "geometry" /\ AllGeometryUnusable) =>
        /\ Returned(Err("NoValidGeometry"))
        /\ Len(GeoSends) = config.ensemble_count
        /\ Len(FillSends) = 0

\* C4 witness: NoValidGeometry after at least one geometry trial.
C4_Witness ==
    /\ Returned(Err("NoValidGeometry"))
    /\ config.ensemble_count >= 1
    /\ Len(GeoSends) = config.ensemble_count
    /\ Len(FillSends) = 0

\* C5: with the same config and the same sequence of responses, two calls
\* return the same height, fill, volume, tonnage, density and material.
C5_Deterministic ==
    (call = 2 /\ ReturnedOk /\ first.v.ok) =>
        \A f \in {"height_m", "fill_ratio_l", "fill_ratio_w", "taper_ratio", "volume",
                  "tonnage", "density", "material_type"} :
            returned.v.v[f] = first.v.v[f]

\* The heights of the entries logged "tailgate" or "plate", in log order.
LoggedHeights ==
    LET used == SelectSeq(geometry_runs, LAMBDA r : r.scale_method \in {"tailgate", "plate"})
    IN  [k \in 1..Len(used) |-> used[k].height_m]

\* C6: the height sample is exactly the heights of the trials logged
\* "tailgate" or "plate", in trial order; an unparsable reply is logged with
\* parsed = none and adds nothing, and with a single usable trial the height
\* the result is computed from is that trial's height (the result's height_m
\* field being it, rounded to 3 decimals as every result field is).
C6_HeightSample ==
    /\ height_list = LoggedHeights
    /\ \A k \in 1..Len(geometry_runs) :
         (GeoSends[k].reply.ok /\ ~parse_geometry(GeoSends[k].reply.v).ok) =>
             /\ geometry_runs[k].parsed = NoneV
             /\ geometry_runs[k].scale_method = "parse_error"
    /\ (ReturnedOk /\ Len(height_list) = 1) =>
         /\ params.v.height = height_list[1]
         /\ returned.v.v.height_m = round3(height_list[1])

\* C6 witness: a malformed and a valid geometry reply, and a result whose
\* height is the valid trial's.
C6_Witness ==
    /\ ReturnedOk
    /\ Len(GeoSends) = 2
    /\ GeoSends[1].reply = Ok(G_BAD)
    /\ GeoSends[2].reply = Ok(G_TAILGATE)
    /\ returned.v.v.geometry_runs[1].parsed = NoneV
    /\ returned.v.v.height_m = 480000

\* C7: the combined height is the element at index floor(len/2) of the sorted
\* sample (fewer than floor(len/2)+1 elements lie below it, at least that many
\* lie at or below it), hence a member of the sample, and for two elements
\* the larger.
C7_UpperMedian ==
    (pc # "geometry" /\ height_list # <<>>) =>
        LET n     == Len(height_list)
            below == Cardinality({k \in 1..n : height_list[k] < height_m})
            upto  == Cardinality({k \in 1..n : height_list[k] <= height_m})
        IN  /\ \E k \in 1..n : height_list[k] = height_m
            /\ below <= n \div 2
            /\ n \div 2 < upto

\* C7 witness: a sample of two different heights, combined to the larger.
C7_Witness ==
    /\ pc = "fill"
    /\ Len(height_list) = 2
    /\ height_list[1] < height_list[2]
    /\ height_m = height_list[2]

\* C8: each of the four parameters handed to the calculator is the mean over
\* the parsed fill trials, clamped afterwards to its range, and the result's
\* fill_ratio_l, fill_ratio_w and taper_ratio lie in their ranges.
C8_ClampedMeans ==
    ReturnedOk =>
        /\ \A f \in {"fill_ratio_l", "fill_ratio_w", "taper_ratio", "packing_density"} :
             params.v[f] = Clamp(average(Field(ParsedFills, f)), Ranges[f].min, Ranges[f].max)
        /\ \A f \in {"fill_ratio_l", "fill_ratio_w", "taper_ratio"} :
             InRange(returned.v.v[f], Ranges[f])

\* C8 witness: a result for which clamping the mean and averaging clamped
\* values differ, with one mean clamped to its maximum.
C8_Witness ==
    /\ ReturnedOk
    /\ params.v.taper_ratio # MeanOfClamped(taper_list, Ranges.taper_ratio)
    /\ average(fill_w_list) > Ranges.fill_ratio_w.max
    /\ params.v.fill_ratio_w = Ranges.fill_ratio_w.max

\* C9: the result's material is a most frequent vote, a parsed fill voting
\* only with a material name that is present, non-empty and not "?"; without
\* votes it is config.material_type.
C9_MaterialMode ==
    ReturnedOk =>
        IF Votes = <<>>
        THEN returned.v.v.material_type = config.material_type
        ELSE /\ Count(Votes, returned.v.v.material_type) >= 1
             /\ \A k \in 1..Len(Votes) :
                  Count(Votes, returned.v.v.material_type) >= Count(Votes, Votes[k])

\* C9 witness: three votes, the first of them outvoted by the other two.
C9_Witness ==
    /\ ReturnedOk
    /\ Len(Votes) = 3
    /\ Votes[1] # Votes[2]
    /\ returned.v.v.material_type = Votes[2]
    /\ returned.v.v.material_type # config.material_type

\* C10: the result's reasoning is that of the latest parsed fill trial whose
\* reply carried a reasoning field (an empty text included); later trials
\* that fail or carry none leave it, and it is "" when no trial carried one.
C10_LastReasoning ==
    ReturnedOk =>
        LET carrying == {k \in 1..Len(FillSends) :
                            /\ FillParsed(FillSends[k].reply)
                            /\ parse_fill(FillSends[k].reply.v).v.reasoning.is_some}
        IN  IF carrying = {}
            THEN returned.v.v.reasoning = ""
            ELSE LET last == CHOOSE k \in carrying : \A o \in carrying : o <= k
                 IN  returned.v.v.reasoning = parse_fill(FillSends[last].reply.v).v.reasoning.v

\* C10 witness: two trials with different reasonings, then a failed trial;
\* the result carries the second reasoning.
C10_Witness ==
    /\ ReturnedOk
    /\ Len(FillSends) = 3
    /\ FillSends[1].reply = Ok(F_LOOSE)
    /\ FillSends[2].reply = Ok(F_PACKED)
    /\ ~FillParsed(FillSends[3].reply)
    /\ returned.v.v.reasoning = "Well packed"

\* A geometry reply that parsed and whose tailgateTopY is <= 0.
TopNonPositive(sent) ==
    /\ sent.ok
    /\ parse_geometry(sent.v).ok
    /\ parse_geometry(sent.v).v.tailgate_top_y <= 0

\* What the height resolver says of a parsed geometry reply.
Resolved(sent) ==
    LET g == parse_geometry(sent.v).v
    IN  height_from_geometry(g.tailgate_top_y, g.tailgate_bottom_y, g.cargo_top_y, g.plate_box,
                             bed_height(config.truck_class))

\* C11: a parsed geometry trial whose tailgateTopY is <= 0 is logged with
\* method "none" and height 0 and adds nothing to the height sample (the
\* sample is no longer than the trials with a positive tailgateTopY are many),
\* whatever the height resolver would make of its other fields; and the round
\* still runs all of its ensemble_count trials.
C11_NonPositiveTopSkipped ==
    /\ \A k \in 1..Len(geometry_runs) :
         TopNonPositive(GeoSends[k].reply) =>
            /\ geometry_runs[k].scale_method = "none"
            /\ geometry_runs[k].height_m = 0
    /\ Len(height_list) <= Cardinality({k \in 1..Len(GeoSends) : ~TopNonPositive(GeoSends[k].reply)})
    /\ pc \in {"fill", "done"} => Len(GeoSends) = config.ensemble_count

\* C11's case: a trial with tailgateTopY = 0 whose tailgate bottom would let
\* the resolver produce a height, followed by a usable trial, in a call that
\* succeeded on the later trial alone.
C11_Witness ==
    /\ ReturnedOk
    /\ Len(height_list) = 1
    /\ \E k \in 1..Len(GeoSends) : \E j \in 1..Len(GeoSends) :
         /\ k < j
         /\ TopNonPositive(GeoSends[k].reply)
         /\ Resolved(GeoSends[k].reply)[2] = "tailgate"
         /\ Resolved(GeoSends[k].reply)[1] > 0
         /\ ~Unusable(GeoSends[j].reply)

\* ---- height_from_geometry, called directly ----

HeightCalled == ret.is_some /\ args.fn = "height_from_geometry"

\* Two heights that are one number, up to the rounding of the arithmetic.
Near(a, b) == Abs(a - b) <= Tolerance

TailgateUsable == args.tg_bot > 0 /\ args.tg_bot > args.tg_top

PlateUsable == args.plate_box.is_some /\ args.plate_box.v[4] - args.plate_box.v[2] > PLATE_MIN_NORM

\* (tgBot - cargoTop) * bedHeight / (tgBot - tgTop).
TailgateHeight ==
    Div(Mul(args.tg_bot - args.cargo_top, args.bed_height), args.tg_bot - args.tg_top)

\* bedHeight + (tgTop - cargoTop) * plate_height_m / plateNormHeight.
PlateHeight ==
    args.bed_height + Div(Mul(args.tg_top - args.cargo_top, PLATE_HEIGHT_M),
                          args.plate_box.v[4] - args.plate_box.v[2])

\* C12: whenever tgBot > 0 and tgBot > tgTop, height_from_geometry answers
\* "tailgate" and the height (tgBot - cargoTop) * bedHeight / (tgBot - tgTop),
\* clamped, whether or not a usable plate box is supplied.
C12_TailgatePreferred ==
    (HeightCalled /\ TailgateUsable) =>
        /\ ret.v[2] = "tailgate"
        /\ Near(ret.v[1], Clamp(TailgateHeight, 0, HeightCeiling))

\* C12's case: a usable tailgate and a usable plate box together, with a
\* height the clamp leaves alone and the plate formula would not give.
C12_Witness ==
    /\ HeightCalled
    /\ TailgateUsable
    /\ PlateUsable
    /\ ret.v[2] = "tailgate"
    /\ 0 < TailgateHeight - Tolerance
    /\ TailgateHeight + Tolerance < HeightCeiling
    /\ ~Near(TailgateHeight, PlateHeight)

\* C13: height_from_geometry answers "plate" exactly when the tailgate is
\* unusable and the plate box's normalized height is strictly greater than
\* plate_min_norm, and the height is then
\* bedHeight + (tgTop - cargoTop) * plate_height_m / plateNormHeight, clamped.
C13_PlateFallback ==
    HeightCalled =>
        /\ ret.v[2] = "plate" <=> (~TailgateUsable /\ PlateUsable)
        /\ ret.v[2] = "plate" => Near(ret.v[1], Clamp(PlateHeight, 0, HeightCeiling))

\* C13's case: the tailgate unusable, a usable plate box, and a height the
\* clamp leaves alone.
C13_Witness ==
    /\ HeightCalled
    /\ ~TailgateUsable
    /\ PlateUsable
    /\ ret.v[2] = "plate"
    /\ 0 < PlateHeight - Tolerance
    /\ PlateHeight + Tolerance < HeightCeiling
    /\ ret.v[1] # args.bed_height

\* C14: height_from_geometry answers "none" if and only if neither the
\* tailgate nor the plate is usable (an absent plate box is unusable), and the
\* height is then exactly 0.
C14_NoReference ==
    HeightCalled =>
        /\ ret.v[2] = "none" <=> (~TailgateUsable /\ ~PlateUsable)
        /\ ret.v[2] = "none" => ret.v[1] = 0

\* C14's case: no plate box, a tailgate bottom above its top, and the answer
\* "none" although the cargo top lies above the tailgate top.
C14_Witness ==
    /\ HeightCalled
    /\ ~args.plate_box.is_some
    /\ args.tg_bot > 0
    /\ args.tg_bot <= args.tg_top
    /\ args.cargo_top < args.tg_top
    /\ ret.v = <<0, "none">>

\* C15: the height height_from_geometry returns lies in [0, 0.8] for every
\* input and either method; so does every element of the pipeline's height
\* sample, and so does the height_m of a result.
C15_HeightWithinCeiling ==
    /\ HeightCalled => (0 <= ret.v[1] /\ ret.v[1] <= HeightCeiling)
    /\ \A k \in 1..Len(height_list) : 0 <= height_list[k] /\ height_list[k] <= HeightCeiling
    /\ ReturnedOk => (0 <= returned.v.v.height_m /\ returned.v.v.height_m <= HeightCeiling)

\* C15's case: a usable tailgate and a cargo top so high that the tailgate
\* formula gives more than the ceiling; the answer is the ceiling.
C15_Witness ==
    /\ HeightCalled
    /\ TailgateUsable
    /\ TailgateHeight > HeightCeiling + Tolerance
    /\ ret.v = <<HeightCeiling, "tailgate">>

\* ---- calculate_tonnage, called directly ----

TonnageCalled == ret.is_some /\ args.fn = "calculate_tonnage"

\* C16: with height = 0, calculate_tonnage returns volume 0 and tonnage 0,
\* whatever the fill ratios, taper, packing density, material and truck class.
C16_ZeroHeight ==
    (TonnageCalled /\ args.height = 0) =>
        \A k \in 1..2 : ret.v[k].volume = 0 /\ ret.v[k].tonnage = 0

\* C16's case: height 0 with every other field away from zero, for a truck
\* class not on record.
C16_Witness ==
    /\ TonnageCalled
    /\ args.height = 0
    /\ args.fill_ratio_l > Unit
    /\ args.fill_ratio_w > 0
    /\ args.packing_density > EFFECTIVE_PACKING_MAX
    /\ args.truck_class = Some("unknown")
    /\ ret.v[1].volume = 0
    /\ ret.v[1].tonnage = 0

\* C17: the effective_packing calculate_tonnage returns lies in
\* [effective_packing_min, effective_packing_max] for all inputs, and so do
\* the packing_density and effective_packing fields of a pipeline result.
C17_EffectivePackingRange ==
    /\ TonnageCalled =>
         \A k \in 1..2 : /\ EFFECTIVE_PACKING_MIN <= ret.v[k].effective_packing
                         /\ ret.v[k].effective_packing <= EFFECTIVE_PACKING_MAX
    /\ ReturnedOk =>
         /\ EFFECTIVE_PACKING_MIN <= returned.v.v.packing_density
         /\ returned.v.v.packing_density <= EFFECTIVE_PACKING_MAX
         /\ EFFECTIVE_PACKING_MIN <= returned.v.v.effective_packing
         /\ returned.v.v.effective_packing <= EFFECTIVE_PACKING_MAX

\* C17's case: a packing density and a volume whose compression-corrected
\* product lies above the interval; the answer is the interval's upper end.
C17_Witness ==
    /\ TonnageCalled
    /\ Mul(args.packing_density,
           Unit + Mul(COMPRESSION_FACTOR, ret.v[1].volume - COMPRESSION_REF_VOLUME))
         > EFFECTIVE_PACKING_MAX + Tolerance
    /\ ret.v[1].effective_packing = EFFECTIVE_PACKING_MAX

\* The second material of the caller is the strictly denser one.
SecondDenser == get_material_density(args.materials[2]) > get_material_density(args.materials[1])

\* C18 as claimed: with everything else fixed, the material of strictly
\* higher density gets a strictly higher tonnage (after rounding to 2
\* decimals) and the same volume.
C18_StrictlyHigher ==
    (TonnageCalled /\ SecondDenser) =>
        /\ ret.v[2].tonnage > ret.v[1].tonnage
        /\ ret.v[2].volume = ret.v[1].volume

\* C18, amended: with everything else fixed and no field negative, the
\* material of strictly higher density gets the same volume and a tonnage
\* (after rounding to 2 decimals) that is never lower; it is strictly higher
\* when volume * effective_packing * (difference of the densities) is at
\* least 0.02, and the two tonnages are equal, both 0, when the height is 0.
C18_HigherDensityNotLower ==
    (/\ TonnageCalled
     /\ SecondDenser
     /\ args.height >= 0
     /\ args.fill_ratio_l >= 0
     /\ args.fill_ratio_w >= 0
     /\ args.taper_ratio >= 0
     /\ args.packing_density >= 0) =>
        /\ ret.v[2].volume = ret.v[1].volume
        /\ ret.v[2].tonnage >= ret.v[1].tonnage
        /\ Mul(Mul(ret.v[1].volume, get_material_density(args.materials[2])
                                     - get_material_density(args.materials[1])),
               ret.v[1].effective_packing) >= 2 * (Unit \div 100)
             => ret.v[2].tonnage > ret.v[1].tonnage
        /\ args.height = 0 => (ret.v[1].tonnage = 0 /\ ret.v[2].tonnage = 0)

\* C18's case: a load of positive volume weighed as the lighter and as the
\* denser material; the denser one weighs strictly more.
C18_Witness ==
    /\ TonnageCalled
    /\ SecondDenser
    /\ args.fill_ratio_l > 0
    /\ ret.v[1].volume > 0
    /\ ret.v[2].volume = ret.v[1].volume
    /\ ret.v[2].tonnage > ret.v[1].tonnage

\* The default bed area: that of the 4t class.
DefaultArea == Mul(Bed4tLength, Bed4tWidth)

\* C19: calculate_tonnage returns a result for any truck class (on record, not
\* on record, absent) and any material name; for a class absent or not on
\* record the bed dimensions multiply to the default (4t) bed area, so the
\* volume is that of the 4t class; for a material not on record the density
\* is the default material's.
C19_NeverFails ==
    TonnageCalled =>
        \A k \in 1..2 :
            /\ DOMAIN ret.v[k] = {"volume", "tonnage", "effective_packing", "density"}
            /\ \A f \in DOMAIN ret.v[k] : ret.v[k][f] \in Int
            /\ args.truck_class \in {NoneV, Some("unknown")} =>
                 /\ Near(Mul(BedDims(args.truck_class)[1], BedDims(args.truck_class)[2]), DefaultArea)
                 /\ Near(ret.v[k].volume, calculate_tonnage(ParamsOf(args, k), Some("4t")).volume)
            /\ args.materials[k] \notin {AsGara, Dosha} => ret.v[k].density = DensityAsGara

\* C19's case: no truck class, a material not on record, and a result of
\* positive volume weighed at the default material's density.
C19_Witness ==
    /\ TonnageCalled
    /\ args.truck_class = NoneV
    /\ args.materials[1] = "unknown material"
    /\ ret.v[1].volume > Unit
    /\ ret.v[1].tonnage > Unit
    /\ ret.v[1].density = DensityAsGara

\* ---- parse_json_safe, called directly ----

ParseCalled == ret.is_some /\ args.fn = "parse_json_safe"

\* The parse of the object alone: serde_json's reading of it, and failure if
\* serde_json rejects it.
SameAsObjectAlone ==
    IF from_str(args.object).ok THEN ret.v = from_str(args.object) ELSE ~ret.v.ok

\* C20 as claimed: for any text prefix + object + suffix that is not itself
\* valid JSON, the result of parse_json_safe is the parse of the object alone.
C20_ExtractedFromAnyText ==
    (ParseCalled /\ ~from_str(TextOf(args)).ok) => SameAsObjectAlone

\* C20, amended: for any text prefix + object + suffix that is not itself
\* valid JSON and whose prefix holds no "{", the result of parse_json_safe is
\* the parse of the object alone, whatever the suffix holds.
C20_ExtractedAfterBraceFreePrefix ==
    (/\ ParseCalled
     /\ ~from_str(TextOf(args)).ok
     /\ \A k \in 1..Len(args.prefix) : args.prefix[k] # "{") => SameAsObjectAlone

\* C20's case: an object with braces inside its reasoning string, between
\* prose with a quote in it and a suffix with a brace in it, read as the
\* object alone is read.
C20_Witness ==
    /\ ParseCalled
    /\ ~from_str(TextOf(args)).ok
    /\ \E k \in 1..Len(args.prefix) : args.prefix[k] = "\""
    /\ \E k \in 1..Len(args.suffix) : args.suffix[k] = "{"
    /\ ret.v.ok
    /\ ret.v.v.reasoning = Some(<<"{", "text", "}">>)
    /\ ret.v = from_str(args.object)

\* ---- the fallback scanner, told from the text alone ----

\* The scanner's reading of the text from position `start` on, as a table:
\* after the k-th piece, the brace depth, whether a string literal is open,
\* and whether the next piece is escaped.  Braces count outside strings
\* only; a quote opens or closes a string unless a backslash inside the
\* string stands before it.
Reading(t, start) ==
    LET f[k \in (start - 1)..Len(t)] ==
            IF k = start - 1 THEN [depth |-> 0, in_string |-> FALSE, escape |-> FALSE]
            ELSE LET before == f[k - 1] IN
                 IF before.escape THEN [before EXCEPT !.escape = FALSE]
                 ELSE IF before.in_string
                 THEN IF t[k] = "\\" THEN [before EXCEPT !.escape = TRUE]
                      ELSE IF t[k] = "\"" THEN [before EXCEPT !.in_string = FALSE]
                      ELSE before
                 ELSE IF t[k] = "\"" THEN [before EXCEPT !.in_string = TRUE]
                 ELSE IF t[k] = "{" THEN [before EXCEPT !.depth = before.depth + 1]
                 ELSE IF t[k] = "}" THEN [before EXCEPT !.depth = before.depth - 1]
                 ELSE before
    IN  f

HasBrace(t) == \E k \in 1..Len(t) : t[k] = "{"

FirstBrace(t) == CHOOSE k \in 1..Len(t) : t[k] = "{" /\ \A j \in 1..(k - 1) : t[j] # "{"

\* The positions from the first "{" on at which the depth is back at zero.
Closings(t) == {k \in FirstBrace(t)..Len(t) : Reading(t, FirstBrace(t))[k].depth = 0}

\* C21: when the direct parse fails and the text holds no "{" (the empty text
\* included), parse_json_safe fails with "no JSON object found"; when the
\* direct parse fails and the reading from the first "{" reaches the end of
\* the text without the depth returning to zero (a string literal left open
\* included), it fails with "incomplete JSON object".
C21_NotFoundOrIncomplete ==
    (ParseCalled /\ ~from_str(TextOf(args)).ok) =>
        /\ ~HasBrace(TextOf(args)) => ret.v = Err(NoJsonObject)
        /\ (HasBrace(TextOf(args)) /\ Closings(TextOf(args)) = {}) => ret.v = Err(IncompleteJson)

\* C21's case: a text whose closing brace lies inside a string literal that
\* is never closed.
C21_Witness ==
    /\ ParseCalled
    /\ TextOf(args) = <<"text", "{", "\"", "text", "}">>
    /\ ret.v = Err(IncompleteJson)

\* The first position at which the reading from the first "{" has the depth
\* back at zero.
FirstClosing(t) == CHOOSE k \in Closings(t) : \A j \in Closings(t) : k <= j

\* The candidate: from the first "{" to the first closing.
Candidate(t) == SubSeq(t, FirstBrace(t), FirstClosing(t))

FieldTable ==
    { <<"upper_area", "upperArea">>, <<"height", "height">>, <<"slope", "slope">>,
      <<"fill_ratio_l", "fillRatioL">>, <<"fill_ratio_w", "fillRatioW">>,
      <<"fill_ratio_z", "fillRatioZ">>, <<"packing_density", "packingDensity">> }

ClampCalled == args.fn = "clamp_params" /\ ret.is_some

ValidateCalled == args.fn = "validate_params" /\ ret.is_some

\* C24: validate_params of what clamp_params returned is empty, whatever
\* was handed in; clamp_params leaves an absent field absent, a provided field
\* provided, and a value inside its range as it was.
C24_ClampedIsValid ==
    /\ (ValidateCalled /\ "clamped_from" \in DOMAIN args) => ret.v = <<>>
    /\ ClampCalled =>
          \A f \in FieldTable :
              LET before == args.params[f[1]]
                  after == ret.v[f[1]]
              IN  /\ after.is_some = before.is_some
                  /\ (before.is_some /\ InRange(before.v, ValidatedRanges[f[1]])) => after = before

\* C24's case: parameters with a value above its range, one below, one
\* inside and one absent, clamped and then validated clean.
C24_Witness ==
    /\ ValidateCalled
    /\ "clamped_from" \in DOMAIN args
    /\ args.clamped_from.height = Some(1500000)
    /\ args.clamped_from.packing_density = Some(300000)
    /\ args.clamped_from.upper_area = Some(400000)
    /\ args.clamped_from.slope = NoneV
    /\ args.params.height = Some(height_max)
    /\ args.params.packing_density = Some(packing_density_min)
    /\ args.params.upper_area = Some(400000)
    /\ args.params.slope = NoneV
    /\ ret.v = <<>>

ErrorsFor(errors, name) == {k \in 1..Len(errors) : errors[k].field = name}

Violates(p, f) ==
    /\ p[f[1]].is_some
    /\ \/ p[f[1]].v < ValidatedRanges[f[1]].min
       \/ p[f[1]].v > ValidatedRanges[f[1]].max

\* C25: validate_params reports one violation for each provided field whose
\* value is strictly outside its range and nothing else: a value at min or at
\* max, and an absent field, are not reported, whatever the other fields hold.
C25_OnePerViolation ==
    ValidateCalled =>
        /\ \A f \in FieldTable :
              Cardinality(ErrorsFor(ret.v, f[2])) = IF Violates(args.params, f) THEN 1 ELSE 0
        /\ \A k \in 1..Len(ret.v) : \E f \in FieldTable : ret.v[k].field = f[2]
        /\ \A f \in FieldTable : \A k \in ErrorsFor(ret.v, f[2]) :
              ret.v[k].value = args.params[f[1]].v

\* C25's case: height below its min and packing density above its max beside
\* a value at min, a value at max and an absent field: two violations.
C25_Witness ==
    /\ ValidateCalled
    /\ "clamped_from" \notin DOMAIN args
    /\ args.params.height = Some(-100000)
    /\ args.params.packing_density = Some(950000)
    /\ args.params.upper_area = Some(upper_area_min)
    /\ args.params.fill_ratio_l = Some(fill_ratio_l_max)
    /\ args.params.slope = NoneV
    /\ args.params.fill_ratio_w = Some(0)
    /\ args.params.fill_ratio_z = Some(850000)
    /\ Len(ret.v) = 2
    /\ ret.v[1].field = "height"
    /\ ret.v[2].field = "packingDensity"

OutcomeTags == {"tailgate", "plate", "none", "parse_error", "error"}

\* The trials of the geometry log that carry a height: tagged tailgate or plate.
HeightTrials == {k \in 1..Len(geometry_runs) : geometry_runs[k].scale_method \in {"tailgate", "plate"}}

\* C27: every geometry log entry is tagged tailgate, plate, none,
\* parse_error or error; "error" is the tag of a transport failure, logged with
\* empty raw text, "parse_error" the tag of a reply that could not be
\* extracted, logged with its raw text; parsed is none for these two tags and
\* for no other; height_m is 0 under every tag but tailgate and plate; and
\* the height sample has one entry per tailgate or plate trial, so neither
\* kind of failure adds to it.
C27_OutcomeTags ==
    /\ Len(geometry_runs) = Len(GeoSends)
    /\ \A k \in 1..Len(geometry_runs) :
         LET run == geometry_runs[k]
             sent == GeoSends[k].reply
         IN  /\ run.scale_method \in OutcomeTags
             /\ run.scale_method = "error" <=> ~sent.ok
             /\ run.scale_method = "parse_error" <=> (sent.ok /\ ~parse_geometry(sent.v).ok)
             /\ run.scale_method = "error" => run.raw_response = ""
             /\ run.scale_method = "parse_error" => run.raw_response = sent.v
             /\ run.parsed = NoneV <=> run.scale_method \in {"error", "parse_error"}
             /\ run.scale_method \notin {"tailgate", "plate"} => run.height_m = 0
    /\ Len(height_list) = Cardinality(HeightTrials)

\* C27's case: a transport failure, an unparsable reply and a tailgate reply
\* in one geometry round, logged under three tags with one height sampled.
C27_Witness ==
    /\ Len(geometry_runs) = 3
    /\ geometry_runs[1].scale_method = "error"
    /\ geometry_runs[1].raw_response = ""
    /\ geometry_runs[2].scale_method = "parse_error"
    /\ geometry_runs[2].raw_response = G_BAD
    /\ geometry_runs[3].scale_method = "tailgate"
    /\ geometry_runs[3].height_m > 0
    /\ Len(height_list) = 1

\* The sends so far are within what ensemble_count allows, geometry first.
SendsWithinEnsemble ==
    /\ Len(GeoSends) <= config.ensemble_count
    /\ Len(FillSends) <= config.ensemble_count
    /\ Len(tape) <= 2 * config.ensemble_count
    /\ tape = GeoSends \o FillSends

\* C28: in every run of analyze_box_overlay the geometry prompt is sent at
\* most ensemble_count times and the fill prompt at most ensemble_count times,
\* every geometry send comes before every fill send, the call returns, and
\* once it has returned nothing more is sent: it ends within
\* 2 * ensemble_count sends whatever the trials gave.
C28_NoRetry ==
    /\ []SendsWithinEnsemble
    /\ <>(pc = "done" /\ returned.is_some)
    /\ [][pc = "done" => (tape' = tape /\ pc' = "done")]_vars

\* C28's case: a call with the largest ensemble_count that returned after
\* exactly 2 * ensemble_count sends, a transport failure in the geometry round
\* and an unparsable reply in the fill round included.
C28_Witness ==
    /\ pc = "done"
    /\ returned.is_some
    /\ config.ensemble_count = MaxEnsemble
    /\ Len(tape) = 2 * MaxEnsemble
    /\ Len(GeoSends) = MaxEnsemble
    /\ ~GeoSends[1].reply.ok
    /\ FillSends[1].reply = Ok(F_BAD)

DefaultFill ==
    FillResponse(default_fill_l, default_fill_w, default_taper, default_packing, NoneV, NoneV)

\* The sample each "{}" fill reply would add to, given what the other
\* replies of the round carry: every fill reply of this backend parses.
ExpectedFillL ==
    [k \in 1..Len(FillSends) |-> IF FillSends[k].reply = Ok(F_EMPTY) THEN 800000 ELSE 750000]

\* C23: fields a reply leaves out take their defaults and the reply does
\* not fail: a fill reply of "{}" is logged as parsed with fillRatioL 0.8,
\* fillRatioW 0.7, taperRatio 0.85, packingDensity 0.7 and these are what it
\* adds to the four samples the means are taken of; a geometry reply of "{}"
\* is logged as parsed, with coordinates 0 and no plate box, under "none",
\* and adds no height.
C23_Defaults ==
    /\ from_str(<<"{", "}">>) = Ok(DefaultFill)
    /\ \A k \in 1..Len(fill_runs) :
         /\ fill_runs[k].parsed.is_some
         /\ FillSends[k].reply = Ok(F_EMPTY) =>
               /\ fill_runs[k].parsed.v.fill_ratio_l = 800000
               /\ fill_runs[k].parsed.v.fill_ratio_w = 700000
               /\ fill_runs[k].parsed.v.taper_ratio = 850000
               /\ fill_runs[k].parsed.v.packing_density = 700000
    /\ fill_l_list = ExpectedFillL
    /\ fill_w_list = [k \in 1..Len(FillSends) |-> 700000]
    /\ taper_list = [k \in 1..Len(FillSends) |-> 850000]
    /\ packing_list = [k \in 1..Len(FillSends) |-> 700000]
    /\ ReturnedOk =>
         /\ params.v.fill_ratio_l = Clamp(average(ExpectedFillL), fill_ratio_l_min, fill_ratio_l_max)
         /\ params.v.fill_ratio_w = 700000
         /\ params.v.taper_ratio = 850000
         /\ params.v.packing_density = 700000
    /\ \A k \in 1..Len(geometry_runs) :
         GeoSends[k].reply = Ok(G_EMPTY) =>
             /\ geometry_runs[k].parsed = Some(GeometryResponse(NoneV, 0, 0, 0))
             /\ geometry_runs[k].scale_method = "none"
    /\ Len(height_list) = Cardinality({k \in 1..Len(GeoSends) : GeoSends[k].reply # Ok(G_EMPTY)})

\* C23's case: a call whose geometry replies are "{}" and a tailgate reading
\* and whose fill replies are all "{}": it succeeds on the four defaults.
C23_Witness ==
    /\ ReturnedOk
    /\ Len(GeoSends) = 2
    /\ GeoSends[1].reply = Ok(G_EMPTY)
    /\ GeoSends[2].reply = Ok(G_TAILGATE)
    /\ FillSends[1].reply = Ok(F_EMPTY)
    /\ FillSends[2].reply = Ok(F_EMPTY)
    /\ geometry_runs[1].scale_method = "none"
    /\ params.v.fill_ratio_l = 800000
    /\ params.v.packing_density = 700000

\* The same entries, each as often, in some order.
SameEntries(a, b) ==
    /\ Len(a) = Len(b)
    /\ \A k \in 1..Len(a) : Count(a, a[k]) = Count(b, a[k])

\* The heights a log of geometry trials carries, in log order.
HeightsOf(runs) ==
    LET used == SelectSeq(runs, LAMBDA r : r.scale_method \in {"tailgate", "plate"})
    IN  [k \in 1..Len(used) |-> used[k].height_m]

\* One field of the parsed fills of a log of fill trials, in log order.
FillsOf(runs, f) ==
    LET ok == SelectSeq(runs, LAMBDA r : r.parsed.is_some)
    IN  [k \in 1..Len(ok) |-> ok[k].parsed.v[f]]

AloneGeometryRuns(loc) ==
    LET sends == SelectSeq(loc.tape, LAMBDA e : e.prompt = GEOMETRY_PROMPT)
    IN  [k \in 1..Len(sends) |->
            GeometryRun(sends[k].reply, bed_height(loc.config.truck_class)).run]

AloneFillRuns(loc) ==
    LET sends == SelectSeq(loc.tape, LAMBDA e : e.prompt = FILL_PROMPT)
    IN  [k \in 1..Len(sends) |-> FillRun(sends[k].reply).run]

\* The locals of a call are what the call would hold running alone on the
\* replies it was given.
AsAlone(loc) ==
    LET g == AloneGeometryRuns(loc)
        f == AloneFillRuns(loc)
        heights == HeightsOf(g)
    IN  /\ loc.geometry_runs = g
        /\ loc.fill_runs = f
        /\ loc.height_list = heights
        /\ loc.fill_l_list = FillsOf(f, "fill_ratio_l")
        /\ loc.fill_w_list = FillsOf(f, "fill_ratio_w")
        /\ loc.taper_list = FillsOf(f, "taper_ratio")
        /\ loc.packing_list = FillsOf(f, "packing_density")
        /\ loc.pc = "done" =>
             /\ loc.returned.is_some
             /\ loc.returned.v.ok <=> (heights # <<>> /\ FillsOf(f, "fill_ratio_l") # <<>>)
             /\ heights = <<>> => loc.returned.v = Err("NoValidGeometry")
             /\ (heights # <<>> /\ FillsOf(f, "fill_ratio_l") = <<>>) =>
                    loc.returned.v = Err("NoValidFill")
             /\ loc.returned.v.ok =>
                  LET res == loc.returned.v.v
                      l == ClampedMean(FillsOf(f, "fill_ratio_l"), Ranges.fill_ratio_l)
                      w == ClampedMean(FillsOf(f, "fill_ratio_w"), Ranges.fill_ratio_w)
                      t == ClampedMean(FillsOf(f, "taper_ratio"), Ranges.taper_ratio)
                      d == ClampedMean(FillsOf(f, "packing_density"), Ranges.packing_density)
                      calc == calculate_tonnage(
                                  CoreParams(median(heights), l, w, t, d, res.material_type),
                                  Some(loc.config.truck_class))
                  IN  /\ res.geometry_runs = g
                      /\ res.fill_runs = f
                      /\ res.height_m = round3(median(heights))
                      /\ res.fill_ratio_l = round3(l)
                      /\ res.fill_ratio_w = round3(w)
                      /\ res.taper_ratio = round3(t)
                      /\ res.volume = round4(calc.volume)
                      /\ res.tonnage = round2(calc.tonnage)

\* C30: with the steps of two calls interleaved in any order, each call's
\* height sample, fill samples, logs and outcome are those of the call
\* running alone on the replies it got; a step of one call changes nothing of
\* the other; and the spec repository, once read, is never changed.
C30_NoSharedState ==
    /\ [](\A p \in Invocations : AsAlone(invocations[p]))
    /\ [][\E p \in Invocations : \A q \in Invocations \ {p} : invocations'[q] = invocations[q]]_vars
    /\ [][spec_cell.is_some => spec_cell' = spec_cell]_vars
    /\ [](spec_cell.is_some => spec_cell.v = PromptSpec)

\* C30's case: both calls have returned, one after an unparsable fill
\* reply and the other after a transport failure, with different heights.
C30_Witness ==
    /\ invocations # NoneV
    /\ invocations[1].pc = "done"
    /\ invocations[2].pc = "done"
    /\ invocations[1].returned.v.ok
    /\ invocations[2].returned.v.ok
    /\ invocations[1].fill_runs[1].parsed = NoneV
    /\ invocations[2].geometry_runs[1].scale_method = "error"
    /\ invocations[1].returned.v.v.height_m # invocations[2].returned.v.v.height_m
    /\ Len(invocations[1].fill_l_list) = 1
    /\ Len(invocations[2].height_list) = 1

====
